---- MODULE Spec2Model ----
(***************************************************************************)
(* kubegpt: the diagnostic classification and reporting engine.            *)
(*                                                                         *)
(* The repository holds several generations of the same client.  Each is   *)
(* modelled under the name it has in the source:                           *)
(*   - the kubectl wrapper taking a namespace argument                     *)
(*     (GetUnhealthyPodsLegacy, GetUnhealthyDeployments, GetFailedEvents   *)
(*     of events.go, getPodLogs);                                          *)
(*   - the kubectl wrapper taking a context (client.go: getReal...);       *)
(*   - the client-go variant (isDeploymentHealthy, isServiceHealthy).      *)
(*                                                                         *)
(* Every component has its own next-state relation and specification; the  *)
(* variables of the other components keep their initial values.            *)
(***************************************************************************)
EXTENDS Integers, Sequences, FiniteSets, TLC

VARIABLES
    pods,            \* the pod listing returned by the last "get pods"
    unhealthyPods,   \* the []PodIssue the classifier returned
    podOp,           \* which classifier ran last
    podErr           \* TRUE when it returned an error

VARIABLES
    deployments,        \* the deployment listing returned by "get deployments"
    deploymentIssues,   \* the []DeploymentIssue the classifier returned
    depOp,              \* which classifier ran
    depErr              \* TRUE when it returned an error

VARIABLES
    services,           \* the service listing, each item with what its lookups answer
    serviceIssues,      \* the service issues the classifier returned
    endpointLookups,    \* names of the services whose Endpoints were requested, in order
    svcOp,              \* which classifier ran
    svcErr,             \* TRUE when it returned an error
    clusterStats        \* ClusterReport.Stats after CalculateStats

VARIABLES
    events,          \* the events of the namespace, as the API server holds them
    failedEvents,    \* the events the correlator returned
    evNow,           \* time.Now() of the pass, in seconds since the epoch
    evMode,          \* "warning-only", or "all-events" after the first fetch failed
    evOp,            \* which correlator ran
    evErr            \* TRUE when it returned an error

VARIABLES
    logFetched,      \* the text the successful kubectl logs call printed
    logReturned,     \* the text getPodLogs returned
    logAttempts,     \* the kubectl logs calls made, in order
    logOp,           \* "getPodLogs" once it ran
    logErr           \* TRUE when it returned an error

VARIABLES
    renderSnapshot,  \* per namespace, the listings the command fetched
    renderReport,    \* per namespace, the issue lists handed to the renderer
    rendered,        \* the lines or blocks of the output
    renderOp,        \* the command whose output step ran
    outputFormat,    \* --output
    includeHealthy,  \* --include-healthy
    slackAnswer,     \* what the POST to the webhook gave
    slackErr         \* the error the send returned, "" for nil

VARIABLES
    enrFetched,      \* the listing a classifier fetched, with what its lookups give
    enrIssues,       \* the issues it returned, every field included
    enrNow,          \* time.Now() during the call
    enrOp,           \* the classifier that ran
    enrErr           \* TRUE when it returned an error

VARIABLES
    dgCmd,         \* the command that runs
    dgPc,          \* where the run stands: idle, fetch, analyze, print, output, next, done
    dgNamespaces,  \* the namespaces the run was asked for
    dgNs,          \* the index of the current namespace
    dgArgs,        \* the kind flags given on the command line, in order
    dgKinds,       \* the kinds the run fetches, in order
    dgKind,        \* the index of the kind fetched next
    dgFix,         \* --fix
    dgMaxItems,    \* --max-items
    dgService,     \* whether the Amazon Q CLI is installed
    dgFormat,      \* --output
    dgResults,     \* the results of the current namespace
    dgReport,      \* the namespace reports of reportCmd.Run
    dgAttempts,    \* the fetches the run made, in order
    dgConsole,     \* the lines printed for the current namespace, in order
    dgCalls,       \* the calls of the Amazon Q client for the current namespace
    dgCursor,      \* the turn of the analysis loops
    dgExpired      \* the deadline of the run's context has passed

VARIABLES
    stNamespaces,  \* r.Namespaces of a cluster report
    stStats,       \* r.Stats
    stOp,          \* the last operation on the report
    stCalls        \* how often CalculateStats was called

VARIABLES
    qzPc,          \* where the main loop of startGame stands: idle, select, continue, done
    qzQuestion,    \* the index of the question on the screen
    qzTimer,       \* per question, its timer goroutine: off, running, fired
    qzReader,      \* per question, its reader goroutine and the line it holds
    qzStdin,       \* the lines typed and not yet read
    qzTyped,       \* per question, the first line typed while its timer ran
    qzAnswers,     \* the answers evaluated so far, one per question
    qzScore,       \* score
    qzLines        \* how many lines the player typed

podVars == <<pods, unhealthyPods, podOp, podErr>>
depVars == <<deployments, deploymentIssues, depOp, depErr>>
svcVars == <<services, serviceIssues, endpointLookups, svcOp, svcErr, clusterStats>>
evVars == <<events, failedEvents, evNow, evMode, evOp, evErr>>
logVars == <<logFetched, logReturned, logAttempts, logOp, logErr>>
renderVars ==
    <<renderSnapshot, renderReport, rendered, renderOp, outputFormat, includeHealthy,
      slackAnswer, slackErr>>
enrVars == <<enrFetched, enrIssues, enrNow, enrOp, enrErr>>

dgVars ==
    <<dgCmd, dgPc, dgNamespaces, dgNs, dgArgs, dgKinds, dgKind, dgFix, dgMaxItems, dgService,
      dgFormat, dgResults, dgReport, dgAttempts, dgConsole, dgCalls, dgCursor, dgExpired>>

statVars == <<stNamespaces, stStats, stOp, stCalls>>
qzVars ==
    <<qzPc, qzQuestion, qzTimer, qzReader, qzStdin, qzTyped, qzAnswers, qzScore, qzLines>>
vars == <<pods, unhealthyPods, podOp, podErr,
          deployments, deploymentIssues, depOp, depErr,
          services, serviceIssues, endpointLookups, svcOp, svcErr, clusterStats,
          events, failedEvents, evNow, evMode, evOp, evErr,
          logFetched, logReturned, logAttempts, logOp, logErr,
          renderSnapshot, renderReport, rendered, renderOp, outputFormat, includeHealthy,
          slackAnswer, slackErr,
          enrFetched, enrIssues, enrNow, enrOp, enrErr,
          dgCmd, dgPc, dgNamespaces, dgNs, dgArgs, dgKinds, dgKind, dgFix, dgMaxItems, dgService,
          dgFormat, dgResults, dgReport, dgAttempts, dgConsole, dgCalls, dgCursor, dgExpired,
          stNamespaces, stStats, stOp, stCalls,
          qzPc, qzQuestion, qzTimer, qzReader, qzStdin, qzTyped, qzAnswers, qzScore, qzLines>>

(***************************************************************************)
(* Bounds of the model.                                                    *)
(***************************************************************************)
MaxPods == 2
MaxContainers == 2
MaxDeployments == 2
MaxReplicas == 2
MaxConditions == 2
MaxServices == 2
MaxSubsets == 2
MaxAddresses == 1
MaxEvents == 2
MaxClockSkew == 1
MaxLogLines == 23
MaxRendered == 8
MaxNamespaces == 2
MaxEnriched == 2
MaxUpstreamEvents == 21
MaxDiagnosed == 2
MaxStatNamespaces == 2
MaxStatPods == 2
MaxStatCalls == 2
MaxDetailContainers == 2

(***************************************************************************)
(* Generic helpers.                                                        *)
(***************************************************************************)

\* Names are unique inside one listing (the API server guarantees it): the
\* i-th item of a listing carries the i-th name.
ItemNames ==
    <<"alpha", "bravo", "charlie", "delta", "echo", "foxtrot",
      "golf", "hotel", "india", "juliett", "kilo", "lima">>

\* The listings an external fetch may return: at most max items, one of them
\* drawn freely from Records at a free position, the others equal to filler.
Listings(Records, filler, max) ==
    {<<>>} \cup
    UNION { { [i \in 1..n |-> [name |-> ItemNames[i]] @@ (IF i = k THEN d ELSE filler)] :
                d \in Records, k \in 1..n } : n \in 1..max }

Names(issues) == { issues[i].Name : i \in 1..Len(issues) }

\* fmt.Sprintf: a text is kept as its format and the values of its verbs
Sprintf(format, args) == [fmt |-> format, args |-> args]
Text(string) == Sprintf(string, <<>>)

(***************************************************************************)
(* Pods: src/pkg/k8s/pods.go and src/pkg/k8s/client.go                     *)
(***************************************************************************)
Phases == {"Running", "Succeeded", "Pending", "Failed", "Unknown"}
RestartCounts == {5, 6}
WaitingReasons == {"", "CrashLoopBackOff"}

\* restartCount > 5 marks a container unhealthy
RestartThreshold == 5

ContainerStatuses ==
    [ready : BOOLEAN, restartCount : RestartCounts, waitingReason : WaitingReasons]

ContainerLists ==
    UNION { { [i \in 1..n |-> [name |-> ItemNames[i]] @@ cs[i]] :
                cs \in [1..n -> ContainerStatuses] } : n \in 0..MaxContainers }

PodRecords == [phase : Phases, containers : ContainerLists]

FillerPod == [phase |-> "Pending", containers |-> <<>>]

PodListings == Listings(PodRecords, FillerPod, MaxPods)

\* a container that counts 5 restarts as too many
ContainerBadFromFive(container) ==
    ~container.ready \/ container.restartCount >= RestartThreshold

\* the test both classifiers apply to one container
ContainerBad(container) ==
    ~container.ready \/ container.restartCount > RestartThreshold

\* pods.go 71-82: allContainersReady
allContainersReady(pod) ==
    \A i \in 1..Len(pod.containers) : ~ContainerBad(pod.containers[i])

\* pods.go 70-87: the two "continue" of the loop
LegacySkipsPod(pod) ==
    \/ pod.phase = "Running" /\ allContainersReady(pod)
    \/ pod.phase = "Succeeded"

\* pods.go 105-146, restricted to the fields of the record modelled here
LegacyContainerIssue(container) ==
    [Name     |-> container.name,
     Ready    |-> container.ready,
     Restarts |-> container.restartCount,
     Status   |-> IF ~container.ready
                  THEN (IF container.waitingReason # "" THEN "Waiting" ELSE "Not Ready")
                  ELSE "Running",
     Reason   |-> IF ~container.ready
                  THEN container.waitingReason
                  ELSE (IF container.restartCount > RestartThreshold
                        THEN "HighRestartCount" ELSE "")]

LegacyPodIssue(pod) ==
    [Name       |-> pod.name,
     Status     |-> pod.phase,
     Containers |-> [i \in 1..Len(pod.containers) |->
                        LegacyContainerIssue(pod.containers[i])]]

RECURSIVE LegacyUnhealthyPods(_)
LegacyUnhealthyPods(items) ==
    IF items = <<>> THEN <<>>
    ELSE IF LegacySkipsPod(Head(items))
         THEN LegacyUnhealthyPods(Tail(items))
         ELSE <<LegacyPodIssue(Head(items))>> \o LegacyUnhealthyPods(Tail(items))

\* client.go 197-207: isUnhealthy
isUnhealthy(pod) ==
    IF pod.phase # "Running" /\ pod.phase # "Succeeded"
    THEN TRUE
    ELSE \E i \in 1..Len(pod.containers) : ContainerBad(pod.containers[i])

\* client.go 217-235
RealContainerIssue(container) ==
    [Name     |-> container.name,
     Ready    |-> container.ready,
     Restarts |-> container.restartCount,
     Status   |-> IF ~container.ready THEN "Not Ready" ELSE "Running",
     Reason   |-> IF ~container.ready THEN container.waitingReason ELSE ""]

RealPodIssue(pod) ==
    [Name       |-> pod.name,
     Status     |-> pod.phase,
     Containers |-> [i \in 1..Len(pod.containers) |->
                        RealContainerIssue(pod.containers[i])]]

RECURSIVE getRealUnhealthyPods(_)
getRealUnhealthyPods(items) ==
    IF items = <<>> THEN <<>>
    ELSE IF isUnhealthy(Head(items))
         THEN <<RealPodIssue(Head(items))>> \o getRealUnhealthyPods(Tail(items))
         ELSE getRealUnhealthyPods(Tail(items))

\* pods.go 13-164: one call of GetUnhealthyPodsLegacy(namespace)
GetUnhealthyPodsLegacy ==
    /\ podOp = "none"
    /\ podOp' = "GetUnhealthyPodsLegacy"
    /\ \/ \* "get pods" fails, or its output does not parse
          /\ pods' = <<>>
          /\ unhealthyPods' = <<>>
          /\ podErr' = TRUE
       \/ \E items \in PodListings :
            /\ pods' = items
            /\ unhealthyPods' = LegacyUnhealthyPods(items)
            /\ podErr' = FALSE
    /\ UNCHANGED <<depVars, svcVars, evVars, logVars, renderVars, enrVars, dgVars, statVars, qzVars>>

\* client.go 140-242: one call of GetUnhealthyPods(ctx)
GetUnhealthyPods ==
    /\ podOp = "none"
    /\ podOp' = "GetUnhealthyPods"
    /\ \/ \* the namespace does not exist, "get pods" fails or does not parse
          /\ pods' = <<>>
          /\ unhealthyPods' = <<>>
          /\ podErr' = TRUE
       \/ \E items \in PodListings :
            /\ pods' = items
            /\ unhealthyPods' = getRealUnhealthyPods(items)
            /\ podErr' = FALSE
    /\ UNCHANGED <<depVars, svcVars, evVars, logVars, renderVars, enrVars, dgVars, statVars, qzVars>>

(***************************************************************************)
(* Deployments: src/unnamed/part_003 (GetUnhealthyDeployments),            *)
(* src/pkg/k8s/client.go (getRealMisconfiguredDeployments) and             *)
(* src/unnamed/part_010 (GetMisconfiguredDeployments, isDeploymentHealthy) *)
(***************************************************************************)
ReplicaCounts == 0..MaxReplicas

\* the conditions a deployment status may list; the last one is a condition
\* that is not "True" and carries no reason
ConditionKinds ==
    { [type |-> "Available", status |-> "True",
       reason |-> "MinimumReplicasAvailable", message |-> Text("has minimum availability")],
      [type |-> "Available", status |-> "False",
       reason |-> "MinimumReplicasUnavailable", message |-> Text("lacks minimum availability")],
      [type |-> "Progressing", status |-> "False",
       reason |-> "ProgressDeadlineExceeded", message |-> Text("exceeded its progress deadline")],
      [type |-> "Progressing", status |-> "Unknown",
       reason |-> "", message |-> Text("progress unknown")] }

ConditionLists == UNION { [1..n -> ConditionKinds] : n \in 0..MaxConditions }

DeploymentRecords ==
    [replicas : ReplicaCounts, readyReplicas : ReplicaCounts,
     updatedReplicas : ReplicaCounts, availableReplicas : ReplicaCounts,
     conditions : ConditionLists]

FillerDeployment ==
    [replicas |-> 1, readyReplicas |-> 0, updatedReplicas |-> 1,
     availableReplicas |-> 0, conditions |-> <<>>]

DeploymentListings == Listings(DeploymentRecords, FillerDeployment, MaxDeployments)

\* the fields every variant copies from the record
DeploymentIssueBase(d) ==
    [Name              |-> d.name,
     Replicas          |-> d.replicas,
     ReadyReplicas     |-> d.readyReplicas,
     UpdatedReplicas   |-> d.updatedReplicas,
     AvailableReplicas |-> d.availableReplicas]

NonTrueConditions(conds) == SelectSeq(conds, LAMBDA c : c.status # "True")

\* ---- part_003: GetUnhealthyDeployments -------------------------------

\* part_003 53-63: the two "continue" of the loop
LegacySkipsDeployment(d) ==
    \/ d.replicas = 0
    \/ /\ d.readyReplicas = d.replicas
       /\ d.updatedReplicas = d.replicas
       /\ d.availableReplicas = d.replicas

\* part_003 89-95: the first condition that is not "True" and of type Available
LegacyAvailableFailures(conds) ==
    SelectSeq(conds, LAMBDA c : c.status # "True" /\ c.type = "Available")

\* part_003 81-95
LegacyReasonMessage(d) ==
    LET fails == LegacyAvailableFailures(d.conditions) IN
    IF fails # <<>>
    THEN [Reason |-> fails[1].reason, Message |-> fails[1].message]
    ELSE IF d.readyReplicas < d.replicas
         THEN [Reason  |-> "InsufficientReplicas",
               Message |-> Sprintf("Only %d/%d replicas are ready",
                                   <<d.readyReplicas, d.replicas>>)]
         ELSE [Reason |-> "", Message |-> Text("")]

LegacyDeploymentIssue(d) ==
    DeploymentIssueBase(d) @@ LegacyReasonMessage(d) @@ [Conditions |-> d.conditions]

RECURSIVE LegacyUnhealthyDeployments(_)
LegacyUnhealthyDeployments(items) ==
    IF items = <<>> THEN <<>>
    ELSE IF LegacySkipsDeployment(Head(items))
         THEN LegacyUnhealthyDeployments(Tail(items))
         ELSE <<LegacyDeploymentIssue(Head(items))>>
              \o LegacyUnhealthyDeployments(Tail(items))

\* ---- client.go: getRealMisconfiguredDeployments ----------------------

\* client.go 425-446: isMisconfigured || hasNonTrueCondition
isMisconfigured(d) ==
    \/ d.readyReplicas < d.replicas
    \/ d.updatedReplicas < d.replicas
    \/ \E i \in 1..Len(d.conditions) : d.conditions[i].status # "True"

\* client.go 459-474: every condition that is not "True" and met while Reason
\* is still empty overwrites Reason and Message
RECURSIVE ConditionReason(_, _)
ConditionReason(conds, acc) ==
    IF conds = <<>> THEN acc
    ELSE LET c == Head(conds) IN
         IF c.status # "True" /\ acc.Reason = ""
         THEN ConditionReason(Tail(conds), [Reason |-> c.reason, Message |-> c.message])
         ELSE ConditionReason(Tail(conds), acc)

\* the priority reversed: a replica shortfall decides before the conditions
RealReasonShortfallFirst(d) ==
    IF d.readyReplicas < d.replicas
    THEN [Reason  |-> "InsufficientReadyReplicas",
          Message |-> Sprintf("Deployment has %d/%d ready replicas",
                             <<d.readyReplicas, d.replicas>>)]
    ELSE IF d.updatedReplicas < d.replicas
         THEN [Reason  |-> "StalledRollout",
               Message |-> Sprintf("Deployment rollout is stalled with %d/%d updated replicas",
                             <<d.updatedReplicas, d.replicas>>)]
         ELSE ConditionReason(d.conditions, [Reason |-> "", Message |-> Text("")])

\* client.go 457-491
RealReasonMessage(d) ==
    LET fromConditions == ConditionReason(d.conditions, [Reason |-> "", Message |-> Text("")]) IN
    IF fromConditions.Reason # ""
    THEN fromConditions
    ELSE IF d.readyReplicas < d.replicas
         THEN [Reason  |-> "InsufficientReadyReplicas",
               Message |-> Sprintf("Deployment has %d/%d ready replicas",
                             <<d.readyReplicas, d.replicas>>)]
         ELSE IF d.updatedReplicas < d.replicas
              THEN [Reason  |-> "StalledRollout",
                    Message |-> Sprintf("Deployment rollout is stalled with %d/%d updated replicas",
                             <<d.updatedReplicas, d.replicas>>)]
              ELSE fromConditions

RealDeploymentIssue(d) ==
    DeploymentIssueBase(d) @@ RealReasonMessage(d)
        @@ [Conditions |-> NonTrueConditions(d.conditions)]

RECURSIVE getRealMisconfiguredDeployments(_)
getRealMisconfiguredDeployments(items) ==
    IF items = <<>> THEN <<>>
    ELSE IF isMisconfigured(Head(items))
         THEN <<RealDeploymentIssue(Head(items))>>
              \o getRealMisconfiguredDeployments(Tail(items))
         ELSE getRealMisconfiguredDeployments(Tail(items))

\* ---- part_010: GetMisconfiguredDeployments (client-go) ---------------

\* part_010 204-228
isDeploymentHealthy(d) ==
    /\ d.readyReplicas = d.replicas
    /\ d.updatedReplicas = d.replicas
    /\ d.availableReplicas = d.replicas
    /\ \A i \in 1..Len(d.conditions) :
          ~(d.conditions[i].type = "Available" /\ d.conditions[i].status # "True")

\* part_010 84-90: the first condition that is not "True", then break
TypedReasonMessage(d) ==
    LET fails == NonTrueConditions(d.conditions) IN
    IF fails # <<>>
    THEN [Reason |-> fails[1].reason, Message |-> fails[1].message]
    ELSE [Reason |-> "", Message |-> Text("")]

TypedDeploymentIssue(d) ==
    DeploymentIssueBase(d) @@ TypedReasonMessage(d) @@ [Conditions |-> d.conditions]

RECURSIVE TypedMisconfiguredDeployments(_)
TypedMisconfiguredDeployments(items) ==
    IF items = <<>> THEN <<>>
    ELSE IF isDeploymentHealthy(Head(items))
         THEN TypedMisconfiguredDeployments(Tail(items))
         ELSE <<TypedDeploymentIssue(Head(items))>>
              \o TypedMisconfiguredDeployments(Tail(items))

\* the three entry points share their shape: fetch, fail or classify
ClassifyDeployments(op, items) ==
    CASE op = "GetUnhealthyDeployments" -> LegacyUnhealthyDeployments(items)
      [] op = "getRealMisconfiguredDeployments" -> getRealMisconfiguredDeployments(items)
      [] op = "GetMisconfiguredDeployments" -> TypedMisconfiguredDeployments(items)

DeploymentPass(op) ==
    /\ depOp = "none"
    /\ depOp' = op
    /\ \/ \* the listing cannot be fetched or parsed
          /\ deployments' = <<>>
          /\ deploymentIssues' = <<>>
          /\ depErr' = TRUE
       \/ \E items \in DeploymentListings :
            /\ deployments' = items
            /\ deploymentIssues' = ClassifyDeployments(op, items)
            /\ depErr' = FALSE
    /\ UNCHANGED <<podVars, svcVars, evVars, logVars, renderVars, enrVars, dgVars, statVars, qzVars>>

\* part_003 10-107
GetUnhealthyDeployments == DeploymentPass("GetUnhealthyDeployments")

\* client.go 359-516: GetMisconfiguredDeployments(ctx) -> getRealMisconfiguredDeployments
GetMisconfiguredDeploymentsReal == DeploymentPass("getRealMisconfiguredDeployments")

\* part_010 50-96
GetMisconfiguredDeployments == DeploymentPass("GetMisconfiguredDeployments")

InitDeployments ==
    /\ deployments = <<>>
    /\ deploymentIssues = <<>>
    /\ depOp = "none"
    /\ depErr = FALSE

(***************************************************************************)
(* Services: src/pkg/k8s/client.go (getRealServiceIssues) and              *)
(* src/unnamed/part_010 (GetServiceIssues, isServiceHealthy); the report   *)
(* statistics of src/pkg/output/terminal.go (CalculateStats)               *)
(***************************************************************************)
\* spec.selector: a map, empty for a service without selector
Selectors == { <<>>, [app |-> "x"] }
ClusterIPs == {"10.0.0.1", "None"}
ServiceTypes == {"ClusterIP", "ExternalName"}

\* what a "get endpoints <name>" answers: an error, output that does not
\* parse, or an Endpoints object, kept as the number of addresses per subset
SubsetLists == UNION { [1..n -> 0..MaxAddresses] : n \in 0..MaxSubsets }
EndpointAnswers ==
    { [kind |-> "error", subsets |-> <<>>], [kind |-> "unparsable", subsets |-> <<>>] }
    \cup { [kind |-> "ok", subsets |-> ss] : ss \in SubsetLists }

\* what "get pods -l <selector>" prints; empty also when the command fails
PodsOutputs == {"", "web-1 0/1 Pending"}

ServiceRecords ==
    [selector : Selectors, clusterIP : ClusterIPs, type : ServiceTypes,
     endpoints : EndpointAnswers, endpointsAgain : EndpointAnswers,
     podsOutput : PodsOutputs]

FillerService ==
    [selector |-> [app |-> "x"], clusterIP |-> "10.0.0.1", type |-> "ClusterIP",
     endpoints |-> [kind |-> "ok", subsets |-> <<>>],
     endpointsAgain |-> [kind |-> "ok", subsets |-> <<>>],
     podsOutput |-> ""]

ServiceListings == Listings(ServiceRecords, FillerService, MaxServices)

\* a classifier that forgets to skip the services without selector
HasNoSelectorNeverSkips(svc) == FALSE

\* len(service.Spec.Selector) == 0
HasNoSelector(svc) == DOMAIN svc.selector = {}

\* only the first subset is inspected
hasEndpointsFirstSubsetOnly(subsets) ==
    subsets # <<>> /\ subsets[1] > 0

\* client.go 606-612, part_010 249-253: some subset has an address
hasEndpoints(subsets) ==
    \E i \in 1..Len(subsets) : subsets[i] > 0

RECURSIVE SumSeq(_)
SumSeq(ns) == IF ns = <<>> THEN 0 ELSE Head(ns) + SumSeq(Tail(ns))

\* ---- client.go: getRealServiceIssues ---------------------------------

\* client.go 568-571: "continue" before any lookup
RealSkipsService(svc) == HasNoSelector(svc)

\* client.go 573-640: the issue of one service with a selector, or none
RealServiceIssue(svc) ==
    IF svc.endpoints.kind = "error"
    THEN <<[Name |-> svc.name, Type |-> svc.type,
            Issue |-> "Cannot retrieve endpoints",
            Message |-> Sprintf("Error getting endpoints: %v", <<"kubectl error">>)]>>
    ELSE IF svc.endpoints.kind = "unparsable"
    THEN <<[Name |-> svc.name, Type |-> svc.type,
            Issue |-> "Invalid endpoint data",
            Message |-> Sprintf("Error parsing endpoints: %v", <<"json error">>)]>>
    ELSE IF ~hasEndpoints(svc.endpoints.subsets)
    THEN <<[Name |-> svc.name, Type |-> svc.type,
            Issue |-> "No endpoints available",
            Message |-> IF svc.podsOutput # ""
                        THEN Sprintf("Service has no endpoint pods. Matching pods status: %s",
                                     <<svc.podsOutput>>)
                        ELSE Text("Service has no endpoint pods")]>>
    ELSE <<>>

RECURSIVE getRealServiceIssues(_)
getRealServiceIssues(items) ==
    IF items = <<>> THEN <<>>
    ELSE IF RealSkipsService(Head(items))
         THEN getRealServiceIssues(Tail(items))
         ELSE RealServiceIssue(Head(items)) \o getRealServiceIssues(Tail(items))

\* the "get endpoints" commands getRealServiceIssues runs, in order
RECURSIVE RealEndpointLookups(_)
RealEndpointLookups(items) ==
    IF items = <<>> THEN <<>>
    ELSE IF RealSkipsService(Head(items))
         THEN RealEndpointLookups(Tail(items))
         ELSE <<Head(items).name>> \o RealEndpointLookups(Tail(items))

\* ---- part_010: GetServiceIssues, isServiceHealthy (client-go) --------

\* part_010 231-240: the services isServiceHealthy answers without a lookup
TypedSkipsService(svc) ==
    svc.clusterIP = "None" \/ HasNoSelector(svc)

\* part_010 231-256; the typed client reports undecodable data as an error
isServiceHealthy(svc) ==
    \/ TypedSkipsService(svc)
    \/ svc.endpoints.kind = "ok" /\ hasEndpoints(svc.endpoints.subsets)

\* part_010 181-195: the second Get of the same Endpoints object
TypedEndpointCount(svc) ==
    IF svc.endpointsAgain.kind = "ok" THEN SumSeq(svc.endpointsAgain.subsets) ELSE 0

\* part_010 156-197
TypedServiceIssue(svc) ==
    [Name          |-> svc.name,
     Type          |-> svc.type,
     ClusterIP     |-> svc.clusterIP,
     Selector      |-> svc.selector,
     EndpointCount |-> TypedEndpointCount(svc),
     Message       |-> IF TypedEndpointCount(svc) = 0
                       THEN Text("No endpoints available") ELSE Text(""),
     Reason        |-> IF TypedEndpointCount(svc) = 0 THEN "EndpointsNotFound" ELSE ""]

RECURSIVE TypedServiceIssues(_)
TypedServiceIssues(items) ==
    IF items = <<>> THEN <<>>
    ELSE IF isServiceHealthy(Head(items))
         THEN TypedServiceIssues(Tail(items))
         ELSE <<TypedServiceIssue(Head(items))>> \o TypedServiceIssues(Tail(items))

\* the Endpoints Get calls of GetServiceIssues, in order: one in
\* isServiceHealthy, a second one for every service found unhealthy
RECURSIVE TypedEndpointLookups(_)
TypedEndpointLookups(items) ==
    IF items = <<>> THEN <<>>
    ELSE LET svc == Head(items) IN
         IF TypedSkipsService(svc)
         THEN TypedEndpointLookups(Tail(items))
         ELSE IF isServiceHealthy(svc)
              THEN <<svc.name>> \o TypedEndpointLookups(Tail(items))
              ELSE <<svc.name, svc.name>> \o TypedEndpointLookups(Tail(items))

\* ---- terminal.go: the report and its statistics ----------------------

\* terminal.go 31-39, with the lists no fetch has filled left nil
NamespaceReport(name) ==
    [Name |-> name, HealthyPods |-> <<>>, UnhealthyPods |-> <<>>,
     HealthyDeployments |-> <<>>, MisconfiguredDeployments |-> <<>>,
     FailedEvents |-> <<>>, ServiceIssues |-> <<>>]

\* terminal.go 42-52 and 56-58
ZeroStats(count) ==
    [NamespaceCount |-> count, TotalPods |-> 0, HealthyPods |-> 0, UnhealthyPods |-> 0,
     TotalDeployments |-> 0, HealthyDeployments |-> 0, MisconfiguredDeployments |-> 0,
     FailedEventCount |-> 0, ServiceIssueCount |-> 0]

\* terminal.go 60-69: the loop over r.Namespaces
RECURSIVE AddNamespaces(_, _)
AddNamespaces(stats, namespaces) ==
    IF namespaces = <<>> THEN stats
    ELSE LET ns == Head(namespaces) IN
         AddNamespaces(
            [stats EXCEPT
                !.TotalPods = @ + Len(ns.HealthyPods) + Len(ns.UnhealthyPods),
                !.HealthyPods = @ + Len(ns.HealthyPods),
                !.UnhealthyPods = @ + Len(ns.UnhealthyPods),
                !.TotalDeployments = @ + Len(ns.HealthyDeployments)
                                       + Len(ns.MisconfiguredDeployments),
                !.HealthyDeployments = @ + Len(ns.HealthyDeployments),
                !.MisconfiguredDeployments = @ + Len(ns.MisconfiguredDeployments),
                !.FailedEventCount = @ + Len(ns.FailedEvents),
                !.ServiceIssueCount = @ + Len(ns.ServiceIssues)],
            Tail(namespaces))

CalculateStatsAccumulates(namespaces) ==
    AddNamespaces([stStats EXCEPT !.NamespaceCount = Len(namespaces)], namespaces)

\* terminal.go 55-72
CalculateStats(namespaces) == AddNamespaces(ZeroStats(Len(namespaces)), namespaces)

ClassifyServices(op, items) ==
    CASE op = "getRealServiceIssues" -> getRealServiceIssues(items)
      [] op = "GetServiceIssues" -> TypedServiceIssues(items)

EndpointLookupsOf(op, items) ==
    CASE op = "getRealServiceIssues" -> RealEndpointLookups(items)
      [] op = "GetServiceIssues" -> TypedEndpointLookups(items)

\* One report over one namespace, as reportCmd.Run assembles it (part_011
\* 81-132), with the service classifier op.  The pod, deployment and event
\* lists of the namespace stay nil, as they do when those fetches fail.
ServicePass(op) ==
    /\ svcOp = "none"
    /\ svcOp' = op
    /\ \/ \* the service listing cannot be fetched or parsed
          /\ services' = <<>>
          /\ serviceIssues' = <<>>
          /\ endpointLookups' = <<>>
          /\ svcErr' = TRUE
          /\ clusterStats' = CalculateStats(<<NamespaceReport("default")>>)
       \/ \E items \in ServiceListings :
            /\ services' = items
            /\ serviceIssues' = ClassifyServices(op, items)
            /\ endpointLookups' = EndpointLookupsOf(op, items)
            /\ svcErr' = FALSE
            /\ clusterStats' =
                 CalculateStats(<<[NamespaceReport("default") EXCEPT
                                     !.ServiceIssues = ClassifyServices(op, items)]>>)
    /\ UNCHANGED <<podVars, depVars, evVars, logVars, renderVars, enrVars, dgVars, statVars, qzVars>>

\* client.go 519-644: GetServiceIssues(ctx) -> getRealServiceIssues
GetServiceIssuesReal == ServicePass("getRealServiceIssues")

\* part_010 142-201
GetServiceIssues == ServicePass("GetServiceIssues")

InitServices ==
    /\ services = <<>>
    /\ serviceIssues = <<>>
    /\ endpointLookups = <<>>
    /\ svcOp = "none"
    /\ svcErr = FALSE
    /\ clusterStats = ZeroStats(0)

(***************************************************************************)
(* Events: src/unnamed/part_000 (GetFailedEvents) and                      *)
(* src/pkg/k8s/client.go (GetFailedEvents -> getRealFailedEvents)          *)
(***************************************************************************)
\* Texts that are searched or parsed are sequences of characters.
Digits == {"0", "1", "2", "3", "4", "5", "6", "7", "8", "9"}
DigitValue(c) ==
    CASE c = "0" -> 0 [] c = "1" -> 1 [] c = "2" -> 2 [] c = "3" -> 3 [] c = "4" -> 4
      [] c = "5" -> 5 [] c = "6" -> 6 [] c = "7" -> 7 [] c = "8" -> 8 [] c = "9" -> 9

\* strings.Contains
Contains(text, sub) ==
    \E k \in 0..(Len(text) - Len(sub)) : SubSeq(text, k + 1, k + Len(sub)) = sub

\* the number written by the digits text[from..to]
RECURSIVE Number(_, _, _)
Number(text, from, to) ==
    IF to < from THEN 0
    ELSE 10 * Number(text, from, to - 1) + DigitValue(text[to])

IsLeap(y) == (y % 4 = 0 /\ y % 100 # 0) \/ y % 400 = 0
DaysIn(y, m) ==
    IF m = 2 THEN (IF IsLeap(y) THEN 29 ELSE 28)
    ELSE IF m \in {4, 6, 9, 11} THEN 30 ELSE 31

\* days from 1970-01-01 to the civil date y-m-d
DaysFromCivil(y, m, d) ==
    LET yy == IF m <= 2 THEN y - 1 ELSE y
        era == yy \div 400
        yoe == yy - era * 400
        mp == IF m > 2 THEN m - 3 ELSE m + 9
        doy == (153 * mp + 2) \div 5 + d - 1
        doe == yoe * 365 + yoe \div 4 - yoe \div 100 + doy
    IN  era * 146097 + doe - 719468

\* time.Parse(time.RFC3339, text) for the layout "2006-01-02T15:04:05Z"; the
\* layouts with a fraction of a second or a numeric zone are not among the
\* timestamps of the model.  The result: ok, and the seconds since the epoch.
ParseRFC3339(text) ==
    LET shaped ==
            /\ Len(text) = 20
            /\ text[5] = "-" /\ text[8] = "-" /\ text[11] = "T"
            /\ text[14] = ":" /\ text[17] = ":" /\ text[20] = "Z"
            /\ \A k \in {1, 2, 3, 4, 6, 7, 9, 10, 12, 13, 15, 16, 18, 19} : text[k] \in Digits
    IN  IF ~shaped THEN [ok |-> FALSE, unix |-> 0]
        ELSE LET y == Number(text, 1, 4)
                 m == Number(text, 6, 7)
                 d == Number(text, 9, 10)
                 hh == Number(text, 12, 13)
                 mm == Number(text, 15, 16)
                 ss == Number(text, 18, 19)
             IN  IF /\ m \in 1..12
                    /\ d >= 1 /\ d <= DaysIn(y, m)
                    /\ hh < 24 /\ mm < 60 /\ ss < 60
                 THEN [ok |-> TRUE,
                       unix |-> DaysFromCivil(y, m, d) * 86400 + hh * 3600 + mm * 60 + ss]
                 ELSE [ok |-> FALSE, unix |-> 0]

\* time.Hour, in seconds
Hour == 3600

Stamp1159 == <<"2","0","2","6","-","1","1","-","0","5","T","1","1",":","5","9",":","3","0","Z">>
Stamp1100 == <<"2","0","2","6","-","1","1","-","0","5","T","1","1",":","0","0",":","0","0","Z">>
Stamp1059 == <<"2","0","2","6","-","1","1","-","0","5","T","1","0",":","5","9",":","5","9","Z">>
StampEve  == <<"2","0","2","6","-","1","1","-","0","4","T","1","2",":","0","0",":","0","0","Z">>
StampNoT  == <<"2","0","2","6","-","1","1","-","0","5"," ","1","0",":","0","0",":","0","0","Z">>
StampM13  == <<"2","0","2","6","-","1","3","-","0","5","T","1","0",":","0","0",":","0","0","Z">>
StampNone == <<>>

\* lastTimestamp: 30 s, exactly 1 h, 1 h 1 s and 1 day before noon of
\* 2026-11-05, and three texts that do not parse
Timestamps == {Stamp1159, Stamp1100, Stamp1059, StampEve, StampNoT, StampM13, StampNone}

\* time.Now(): noon of 2026-11-05, or up to MaxClockSkew seconds later
Noon == ParseRFC3339(
    <<"2","0","2","6","-","1","1","-","0","5","T","1","2",":","0","0",":","0","0","Z">>).unix
EvaluationTimes == { Noon + k : k \in 0..MaxClockSkew }

\* a JSON field that is missing from the object
Absent == "(absent)"
EventTypes == {"Warning", "Normal", Absent}

ErrorWord == <<"E","r","r","o","r">>
FailedWord == <<"F","a","i","l","e","d">>

EventReasons ==
    { <<"F","a","i","l","e","d","M","o","u","n","t">>,
      <<"S","y","n","c","E","r","r","o","r">>,
      <<"f","a","i","l","e","d">>,
      <<"B","a","c","k","O","f","f">> }

EventRecords == [type : EventTypes, reason : EventReasons, lastTimestamp : Timestamps]

FillerEvent ==
    [type |-> "Warning", reason |-> <<"B","a","c","k","O","f","f">>,
     lastTimestamp |-> Stamp1159]

EventListings == Listings(EventRecords, FillerEvent, MaxEvents)

\* a string field of a struct decoded by encoding/json: missing gives ""
StructString(field) == IF field = Absent THEN "" ELSE field

\* kubectl get events --field-selector=type=Warning
WarningSelector(items) == SelectSeq(items, LAMBDA e : e.type = "Warning")

\* ---- part_000: GetFailedEvents(namespace) ----------------------------

\* part_000 46-51: the event is older than one hour
LegacyIsOld(e, now) ==
    LET t == ParseRFC3339(e.lastTimestamp) IN
    t.ok /\ now - t.unix > Hour

\* part_000 40-55: the two "continue" of the loop
LegacySkipsEvent(e, now) ==
    \/ StructString(e.type) # "Warning"
    \/ LegacyIsOld(e, now)

LegacyEvent(e) ==
    [Name |-> e.name, Type |-> StructString(e.type), Reason |-> e.reason,
     LastTimestamp |-> e.lastTimestamp, Age |-> Text("")]

RECURSIVE LegacyFailedEvents(_, _)
LegacyFailedEvents(items, now) ==
    IF items = <<>> THEN <<>>
    ELSE IF LegacySkipsEvent(Head(items), now)
         THEN LegacyFailedEvents(Tail(items), now)
         ELSE <<LegacyEvent(Head(items))>> \o LegacyFailedEvents(Tail(items), now)

\* ---- client.go: getRealFailedEvents -----------------------------------

\* client.go 288-301
RealKeepsEvent(e) ==
    IF e.type = Absent THEN FALSE
    ELSE IF e.type = "Warning" THEN TRUE
    ELSE Contains(e.reason, ErrorWord) \/ Contains(e.reason, FailedWord)

\* client.go 332-345: the age shown with the event
FormatAge(e, now) ==
    LET t == ParseRFC3339(e.lastTimestamp)
        age == now - t.unix
    IN  IF ~t.ok THEN Text("")
        ELSE IF age < 60 THEN Sprintf("%ds", <<age>>)
        ELSE IF age < Hour THEN Sprintf("%dm", <<age \div 60>>)
        ELSE IF age < 24 * Hour THEN Sprintf("%dh", <<age \div Hour>>)
        ELSE Sprintf("%dd", <<(age \div Hour) \div 24>>)

RealEvent(e, now) ==
    [Name |-> e.name, Type |-> e.type, Reason |-> e.reason,
     LastTimestamp |-> e.lastTimestamp, Age |-> FormatAge(e, now)]

RECURSIVE getRealFailedEvents(_, _)
getRealFailedEvents(items, now) ==
    IF items = <<>> THEN <<>>
    ELSE IF RealKeepsEvent(Head(items))
         THEN <<RealEvent(Head(items), now)>> \o getRealFailedEvents(Tail(items), now)
         ELSE getRealFailedEvents(Tail(items), now)

\* part_000 10-58: one call of GetFailedEvents(namespace)
GetFailedEvents ==
    /\ evOp = "none"
    /\ evOp' = "GetFailedEvents"
    /\ \E items \in EventListings, now \in EvaluationTimes :
         /\ events' = items
         /\ evNow' = now
         /\ \/ \* "get events" fails or does not parse
               /\ failedEvents' = <<>>
               /\ evMode' = "none"
               /\ evErr' = TRUE
            \/ /\ failedEvents' = LegacyFailedEvents(items, now)
               /\ evMode' = "all-events"
               /\ evErr' = FALSE
    /\ UNCHANGED <<podVars, depVars, svcVars, logVars, renderVars, enrVars, dgVars, statVars, qzVars>>

\* client.go 245-356: one call of GetFailedEvents(ctx)
GetFailedEventsReal ==
    /\ evOp = "none"
    /\ evOp' = "getRealFailedEvents"
    /\ \E items \in EventListings, now \in EvaluationTimes :
         /\ events' = items
         /\ evNow' = now
         /\ \/ \* the fetch with the Warning selector succeeds
               /\ failedEvents' = getRealFailedEvents(WarningSelector(items), now)
               /\ evMode' = "warning-only"
               /\ evErr' = FALSE
            \/ \* it fails, the fetch of all events succeeds
               /\ failedEvents' = getRealFailedEvents(items, now)
               /\ evMode' = "all-events"
               /\ evErr' = FALSE
            \/ \* both fail, or the namespace is missing, or the output does not parse
               /\ failedEvents' = <<>>
               /\ evMode' = "none"
               /\ evErr' = TRUE
    /\ UNCHANGED <<podVars, depVars, svcVars, logVars, renderVars, enrVars, dgVars, statVars, qzVars>>

InitEvents ==
    /\ events = <<>>
    /\ failedEvents = <<>>
    /\ evNow = Noon
    /\ evMode = "none"
    /\ evOp = "none"
    /\ evErr = FALSE

(***************************************************************************)
(* Logs: src/pkg/k8s/pods.go (getPodLogs)                                  *)
(***************************************************************************)
\* A text is a sequence of pieces: a newline, or a run of `size` bytes that
\* holds no newline.  The n-th line kubectl printed is the run numbered n.
Newline == [text |-> "\n", n |-> 0, size |-> 1]
LogLine(k, width) == [text |-> "line", n |-> k, size |-> width]
TruncationMarker == [text |-> "...[logs truncated]...", n |-> 0, size |-> 22]

\* len(output)
RECURSIVE ByteLen(_)
ByteLen(text) ==
    IF text = <<>> THEN 0 ELSE Head(text).size + ByteLen(Tail(text))

\* the index of the first newline of the text, 0 when it has none
FirstNewline(text) ==
    IF \E k \in 1..Len(text) : text[k] = Newline
    THEN CHOOSE k \in 1..Len(text) :
            /\ text[k] = Newline
            /\ \A j \in 1..(k - 1) : text[j] # Newline
    ELSE 0

\* strings.Split(text, "\n")
RECURSIVE Split(_)
Split(text) ==
    LET k == FirstNewline(text) IN
    IF k = 0 THEN <<text>>
    ELSE <<SubSeq(text, 1, k - 1)>> \o Split(SubSeq(text, k + 1, Len(text)))

\* strings.Join(lines, "\n")
RECURSIVE Join(_)
Join(lines) ==
    IF lines = <<>> THEN <<>>
    ELSE IF Len(lines) = 1 THEN lines[1]
    ELSE lines[1] \o <<Newline>> \o Join(Tail(lines))

\* the widths of the lines of a log: 23 lines of 86 bytes make 2000 bytes,
\* 21 lines of 94 make 1994, 21 lines of 95 make 2015
LineWidths == {0, 86, 94, 95, 150}

\* what kubectl logs prints: `count` lines of one width, the last one ended
\* by a newline or not
RECURSIVE LogText(_, _, _)
LogText(count, width, ended) ==
    LET line == IF width = 0 THEN <<>> ELSE <<LogLine(count, width)>>
        tail == IF ended THEN <<Newline>> ELSE <<>>
    IN  IF count = 0 THEN <<>>
        ELSE IF count = 1 THEN line \o tail
        ELSE LogText(count - 1, width, FALSE) \o <<Newline>> \o line \o tail

LogTexts ==
    { LogText(count, width, ended) :
        count \in 1..MaxLogLines, width \in LineWidths, ended \in BOOLEAN }

\* pods.go 155: the tail the caller asks for; 0 asks for the whole log
DefaultTail == 50
TailLines == {0, DefaultTail}

\* pods.go 203, 205, 207
TruncateChars == 2000
TruncateLines == 20
HeadLines == 5
TailKept == 15

\* pods.go 203
Exceeds(text) == ByteLen(text) > TruncateChars

\* pods.go 202-210
TruncateLogs(output) ==
    IF Exceeds(output)
    THEN LET lines == Split(output) IN
         IF Len(lines) > TruncateLines
         THEN Join(SubSeq(lines, 1, HeadLines)
                   \o <<<<TruncationMarker>>>>
                   \o SubSeq(lines, Len(lines) - TailKept + 1, Len(lines)))
         ELSE output
    ELSE output

\* pods.go 186-190, 195: the arguments of one kubectl logs call
LogArgs(tailLines, previous) == [tail |-> tailLines, previous |-> previous]

\* a third call, against the current instance again, after two failures
LogAttemptsRetryTwice(tailLines, answers) ==
    IF answers[1] THEN <<[args |-> LogArgs(tailLines, FALSE), ok |-> TRUE]>>
    ELSE IF answers[2]
    THEN <<[args |-> LogArgs(tailLines, FALSE), ok |-> FALSE],
           [args |-> LogArgs(tailLines, TRUE), ok |-> TRUE]>>
    ELSE <<[args |-> LogArgs(tailLines, FALSE), ok |-> FALSE],
           [args |-> LogArgs(tailLines, TRUE), ok |-> FALSE],
           [args |-> LogArgs(tailLines, FALSE), ok |-> answers[1]]>>

\* pods.go 192-200: the kubectl logs calls of one getPodLogs, with what each
\* returned; answers[k] tells whether kubectl answers the k-th call
LogAttempts(tailLines, answers) ==
    IF answers[1] THEN <<[args |-> LogArgs(tailLines, FALSE), ok |-> TRUE]>>
    ELSE <<[args |-> LogArgs(tailLines, FALSE), ok |-> FALSE],
           [args |-> LogArgs(tailLines, TRUE), ok |-> answers[2]]>>

\* pods.go 185-213: one call of getPodLogs
getPodLogs ==
    /\ logOp = "none"
    /\ logOp' = "getPodLogs"
    /\ \E tailLines \in TailLines, answers \in [1..2 -> BOOLEAN] :
         LET attempts == LogAttempts(tailLines, answers) IN
         /\ logAttempts' = attempts
         /\ IF attempts[Len(attempts)].ok
            THEN \E output \in LogTexts :
                    /\ logFetched' = output
                    /\ logReturned' = TruncateLogs(output)
                    /\ logErr' = FALSE
            ELSE \* pods.go 197-199: return "", err
                 /\ logFetched' = <<>>
                 /\ logReturned' = <<>>
                 /\ logErr' = TRUE
    /\ UNCHANGED <<podVars, depVars, svcVars, evVars, renderVars, enrVars, dgVars, statVars, qzVars>>

InitLogs ==
    /\ logFetched = <<>>
    /\ logReturned = <<>>
    /\ logAttempts = <<>>
    /\ logOp = "none"
    /\ logErr = FALSE

(***************************************************************************)
(* Renderers: src/pkg/output/terminal.go (PrintTerminalOutput,             *)
(* PrintClusterReport), src/unnamed/part_005 (GenerateMarkdownReport,      *)
(* GenerateMarkdownClusterReport), src/unnamed/part_001 (createSlackMessage,*)
(* createSlackClusterReport, SendToSlack, SendClusterReportToSlack), and   *)
(* the output steps of the commands that call them                         *)
(***************************************************************************)
\* One line, table row or Slack block of an output.  kind, ns and category
\* name the statement that emits it; fmt is its format, name and n are the
\* values of its verbs.
Line(kind, ns, category, format, name, n) ==
    [kind |-> kind, ns |-> ns, category |-> category, fmt |-> format, name |-> name, n |-> n]

Min(a, b) == IF a < b THEN a ELSE b

\* the field of the results that holds the issues of a kind
CategoryField ==
    [pods |-> "UnhealthyPods", deployments |-> "MisconfiguredDeployments",
     services |-> "ServiceIssues", events |-> "FailedEvents"]

\* a field of a Go struct that was never assigned holds its zero value
Field(rec, f, zero) == IF f \in DOMAIN rec THEN rec[f] ELSE zero

\* part_001 161 and 219; part_001 367, 383 and 400
TopCap == 5
NestedCap == 3

\* "Analysis" and "Suggested Fix", printed when the field is not empty
AnnotationLines(ns, category, issue) ==
    (IF Field(issue, "Analysis", "") # ""
     THEN <<Line("analysis", ns, category, "Analysis: %s", issue.Analysis, 0)>> ELSE <<>>)
    \o (IF Field(issue, "Fix", "") # ""
        THEN <<Line("fix", ns, category, "Suggested Fix: %s", issue.Fix, 0)>> ELSE <<>>)

\* the same loop, the issues emitted last to first
RECURSIVE ItemLinesReversed(_, _, _, _, _, _)
ItemLinesReversed(ns, category, format, issues, annotated, i) ==
    IF i > Len(issues) THEN <<>>
    ELSE ItemLinesReversed(ns, category, format, issues, annotated, i + 1)
         \o <<Line("item", ns, category, format, issues[i].Name, i)>>
         \o (IF annotated THEN AnnotationLines(ns, category, issues[i]) ELSE <<>>)

\* for i, x := range issues { print x }, from the i-th issue on
RECURSIVE ItemLines(_, _, _, _, _, _)
ItemLines(ns, category, format, issues, annotated, i) ==
    IF i > Len(issues) THEN <<>>
    ELSE <<Line("item", ns, category, format, issues[i].Name, i)>>
         \o (IF annotated THEN AnnotationLines(ns, category, issues[i]) ELSE <<>>)
         \o ItemLines(ns, category, format, issues, annotated, i + 1)

\* for i, x := range issues { if i >= cap { "... and %d more"; break }; print x }
RECURSIVE CappedItemLines(_, _, _, _, _, _)
CappedItemLines(ns, category, format, issues, cap, i) ==
    IF i > Len(issues) THEN <<>>
    ELSE IF i - 1 >= cap
         THEN <<Line("more", ns, category, "... and %d more", "", Len(issues) - cap)>>
         ELSE <<Line("item", ns, category, format, issues[i].Name, 0)>>
              \o CappedItemLines(ns, category, format, issues, cap, i + 1)

\* if len(issues) > 0 { header; items }
Section(ns, category, header, issues, lines) ==
    IF Len(issues) > 0
    THEN <<Line("section", ns, category, header, "", 0)>> \o lines
    ELSE <<>>

\* the four counts of the summary
SummaryLines(results) ==
    << Line("summary", results.Namespace, "pods", "Unhealthy Pods: %d", "",
            Len(results.UnhealthyPods)),
       Line("summary", results.Namespace, "events", "Failed Events: %d", "",
            Len(results.FailedEvents)),
       Line("summary", results.Namespace, "deployments", "Misconfigured Deployments: %d", "",
            Len(results.MisconfiguredDeployments)),
       Line("summary", results.Namespace, "services", "Service Issues: %d", "",
            Len(results.ServiceIssues)) >>

\* terminal.go 75-217; of an issue its headline, analysis and fix are kept
PrintTerminalOutput(results) ==
    LET ns == results.Namespace IN
    <<Line("title", ns, "", "Diagnostic Results for Namespace: %s", ns, 0)>>
    \o SummaryLines(results)
    \o Section(ns, "pods", "Unhealthy Pods:", results.UnhealthyPods,
               ItemLines(ns, "pods", "[%d] Pod: %s", results.UnhealthyPods, TRUE, 1))
    \o Section(ns, "deployments", "Misconfigured Deployments:", results.MisconfiguredDeployments,
               ItemLines(ns, "deployments", "[%d] Deployment: %s",
                         results.MisconfiguredDeployments, TRUE, 1))
    \o Section(ns, "services", "Service Issues:", results.ServiceIssues,
               ItemLines(ns, "services", "[%d] Service: %s", results.ServiceIssues, TRUE, 1))
    \o Section(ns, "events", "Failed Events:", results.FailedEvents,
               ItemLines(ns, "events", "[%d] Event: %s", results.FailedEvents, TRUE, 1))

\* part_005 11-153
GenerateMarkdownReport(results) ==
    LET ns == results.Namespace IN
    <<Line("title", ns, "", "# Kubernetes Diagnostic Report", "", 0)>>
    \o SummaryLines(results)
    \o Section(ns, "pods", "## Unhealthy Pods", results.UnhealthyPods,
               ItemLines(ns, "pods", "### %d. Pod: %s", results.UnhealthyPods, TRUE, 1))
    \o Section(ns, "deployments", "## Misconfigured Deployments",
               results.MisconfiguredDeployments,
               ItemLines(ns, "deployments", "### %d. Deployment: %s",
                         results.MisconfiguredDeployments, TRUE, 1))
    \o Section(ns, "services", "## Service Issues", results.ServiceIssues,
               ItemLines(ns, "services", "### %d. Service: %s", results.ServiceIssues, TRUE, 1))
    \o Section(ns, "events", "## Failed Events", results.FailedEvents,
               ItemLines(ns, "events", "### %d. Event: %s", results.FailedEvents, TRUE, 1))

\* part_001 105-259: the blocks of the message, then those of its attachments
createSlackMessage(results) ==
    LET ns == results.Namespace IN
    <<Line("title", ns, "", "*Kubernetes Diagnostic Results for Namespace: %s*", ns, 0)>>
    \o SummaryLines(results)
    \o Section(ns, "pods", "*Unhealthy Pods*", results.UnhealthyPods,
               CappedItemLines(ns, "pods", "*%s*: %s", results.UnhealthyPods, TopCap, 1))
    \o Section(ns, "deployments", "*Misconfigured Deployments*",
               results.MisconfiguredDeployments,
               CappedItemLines(ns, "deployments", "*%s*: %d/%d ready",
                               results.MisconfiguredDeployments, TopCap, 1))

\* part_009 188-312: what diagnoseNamespace prints after the analysis.  The
\* events GetFailedEvents(namespace) returns are structs, so the assertion
\* event.(map[string]interface{}) of line 290 fails for each of them.
diagnoseNamespacePrint(results) ==
    LET ns == results.Namespace IN
    <<Line("title", ns, "", "Diagnostic Results for Namespace: %s", ns, 0),
      Line("summary", ns, "pods", "- Unhealthy Pods: %d", "", Len(results.UnhealthyPods)),
      Line("summary", ns, "deployments", "- Unhealthy Deployments: %d", "",
           Len(results.MisconfiguredDeployments)),
      Line("summary", ns, "events", "- Failed Events: %d", "", Len(results.FailedEvents))>>
    \o Section(ns, "pods", "Unhealthy Pods:", results.UnhealthyPods,
               ItemLines(ns, "pods", "[%d] Pod: %s", results.UnhealthyPods, TRUE, 1))
    \o Section(ns, "deployments", "Unhealthy Deployments:", results.MisconfiguredDeployments,
               ItemLines(ns, "deployments", "[%d] Deployment: %s",
                         results.MisconfiguredDeployments, TRUE, 1))
    \o Section(ns, "events", "Failed Events:", results.FailedEvents, <<>>)
    \o (IF /\ Len(results.UnhealthyPods) = 0
           /\ Len(results.MisconfiguredDeployments) = 0
           /\ Len(results.FailedEvents) = 0
        THEN <<Line("success", ns, "", "No issues found in this namespace!", "", 0)>>
        ELSE <<>>)

\* ---- the cluster report ----------------------------------------------

\* terminal.go 249-250, part_005 185-186, part_001 327-328
NamespaceHasNoIssues(ns) ==
    /\ Len(ns.UnhealthyPods) = 0
    /\ Len(ns.MisconfiguredDeployments) = 0
    /\ Len(ns.FailedEvents) = 0
    /\ Len(ns.ServiceIssues) = 0

\* terminal.go 237-243, part_005 174-178, part_001 306-312
healthStatus(stats) ==
    IF \/ stats.UnhealthyPods > 0
       \/ stats.MisconfiguredDeployments > 0
       \/ stats.FailedEventCount > 0
       \/ stats.ServiceIssueCount > 0
    THEN "Unhealthy" ELSE "Healthy"

ClusterHeadLines(report, title) ==
    << Line("title", "", "", title, "", 0),
       Line("stats", "", "", "Namespaces: %d", "", report.Stats.NamespaceCount),
       Line("stats", "", "pods", "Pods: %d total", "", report.Stats.TotalPods),
       Line("stats", "", "deployments", "Deployments: %d total", "",
            report.Stats.TotalDeployments),
       Line("stats", "", "events", "Failed Events: %d", "", report.Stats.FailedEventCount),
       Line("stats", "", "services", "Service Issues: %d", "", report.Stats.ServiceIssueCount),
       Line("health", "", "", "Cluster Health: %s", healthStatus(report.Stats), 0) >>

NamespaceStatLines(ns) ==
    << Line("namespace", ns.Name, "", "Namespace: %s", ns.Name, 0),
       Line("stats", ns.Name, "pods", "Pods: %d total", "",
            Len(ns.HealthyPods) + Len(ns.UnhealthyPods)),
       Line("stats", ns.Name, "deployments", "Deployments: %d total", "",
            Len(ns.HealthyDeployments) + Len(ns.MisconfiguredDeployments)),
       Line("stats", ns.Name, "events", "Failed Events: %d", "", Len(ns.FailedEvents)),
       Line("stats", ns.Name, "services", "Service Issues: %d", "", Len(ns.ServiceIssues)) >>

\* terminal.go 254-303 and part_005 190-236: the three lists in full
FullNamespaceLines(ns, podFormat, deploymentFormat, serviceFormat) ==
    NamespaceStatLines(ns)
    \o Section(ns.Name, "pods", "Unhealthy Pods", ns.UnhealthyPods,
               ItemLines(ns.Name, "pods", podFormat, ns.UnhealthyPods, FALSE, 1))
    \o Section(ns.Name, "deployments", "Misconfigured Deployments",
               ns.MisconfiguredDeployments,
               ItemLines(ns.Name, "deployments", deploymentFormat,
                         ns.MisconfiguredDeployments, FALSE, 1))
    \o Section(ns.Name, "services", "Service Issues", ns.ServiceIssues,
               ItemLines(ns.Name, "services", serviceFormat, ns.ServiceIssues, FALSE, 1))

\* part_001 332-425: the three lists, each cut after NestedCap issues
CappedNamespaceLines(ns) ==
    NamespaceStatLines(ns)
    \o Section(ns.Name, "pods", "*Unhealthy Pods:*", ns.UnhealthyPods,
               CappedItemLines(ns.Name, "pods", "- %s: %s", ns.UnhealthyPods, NestedCap, 1))
    \o Section(ns.Name, "deployments", "*Misconfigured Deployments:*",
               ns.MisconfiguredDeployments,
               CappedItemLines(ns.Name, "deployments", "- %s: %d/%d ready",
                               ns.MisconfiguredDeployments, NestedCap, 1))
    \o Section(ns.Name, "services", "*Service Issues:*", ns.ServiceIssues,
               CappedItemLines(ns.Name, "services", "- %s: %d endpoints",
                               ns.ServiceIssues, NestedCap, 1))

\* terminal.go 220-305
RECURSIVE PrintClusterNamespaces(_, _)
PrintClusterNamespaces(namespaces, withHealthy) ==
    IF namespaces = <<>> THEN <<>>
    ELSE (IF ~withHealthy /\ NamespaceHasNoIssues(Head(namespaces))
          THEN <<>>
          ELSE FullNamespaceLines(Head(namespaces), "[%d] %s: %s",
                                  "[%d] %s: %d/%d ready", "[%d] %s: %d endpoints"))
         \o PrintClusterNamespaces(Tail(namespaces), withHealthy)

PrintClusterReport(report, withHealthy) ==
    ClusterHeadLines(report, "Cluster Health Report")
    \o PrintClusterNamespaces(report.Namespaces, withHealthy)

\* part_005 156-240
RECURSIVE MarkdownClusterNamespaces(_, _)
MarkdownClusterNamespaces(namespaces, withHealthy) ==
    IF namespaces = <<>> THEN <<>>
    ELSE (IF ~withHealthy /\ NamespaceHasNoIssues(Head(namespaces))
          THEN <<>>
          ELSE FullNamespaceLines(Head(namespaces), "| %s | %s | %s | %s |",
                                  "| %s | %d/%d | %s | %s |", "| %s | %s | %d | %s |"))
         \o MarkdownClusterNamespaces(Tail(namespaces), withHealthy)

GenerateMarkdownClusterReport(report, withHealthy) ==
    ClusterHeadLines(report, "# Kubernetes Cluster Health Report")
    \o MarkdownClusterNamespaces(report.Namespaces, withHealthy)

\* part_001 262-436
RECURSIVE SlackClusterNamespaces(_)
SlackClusterNamespaces(namespaces) ==
    IF namespaces = <<>> THEN <<>>
    ELSE (IF NamespaceHasNoIssues(Head(namespaces))
          THEN <<>>
          ELSE CappedNamespaceLines(Head(namespaces)))
         \o SlackClusterNamespaces(Tail(namespaces))

createSlackClusterReport(report) ==
    ClusterHeadLines(report, "*Kubernetes Cluster Health Report*")
    \o SlackClusterNamespaces(report.Namespaces)

\* ---- sending to Slack ------------------------------------------------

\* what http.Post gives: an error, or a response with its status code
PostAnswers ==
    {[kind |-> "error", status |-> 0]}
    \cup { [kind |-> "response", status |-> s] : s \in {200, 201, 204, 404, 500} }

NoPost == [kind |-> "none", status |-> 0]

\* net/http: StatusOK
StatusOK == 200

\* the check widened to the whole 2xx range
PostErrorOutside2xx(answer) ==
    IF answer.kind = "error" THEN "failed to send message to Slack: %w"
    ELSE IF answer.status \notin 200..299 THEN "failed to send message to Slack: %s"
    ELSE ""

\* part_001 64-75 and 90-101, output.go 211-223: the error the send returns,
\* "" for nil.  json.Marshal cannot fail on these messages.
PostError(answer) ==
    IF answer.kind = "error" THEN "failed to send message to Slack: %w"
    ELSE IF answer.status # StatusOK THEN "failed to send message to Slack: %s"
    ELSE ""

\* ---- what the commands collect before they print ---------------------

NamespaceNames == <<"default", "kube-system", "monitoring", "staging">>

HealthyPod == [phase |-> "Running", containers |-> <<>>]

HealthyDeployment ==
    [replicas |-> 1, readyReplicas |-> 1, updatedReplicas |-> 1,
     availableReplicas |-> 1, conditions |-> <<>>]

HealthyService ==
    [FillerService EXCEPT !.endpoints = [kind |-> "ok", subsets |-> <<1>>],
                          !.endpointsAgain = [kind |-> "ok", subsets |-> <<1>>]]

NormalEvent == [FillerEvent EXCEPT !.type = "Normal"]

\* A listing by the health of its records: pattern[i] says whether the
\* i-th record is an unhealthy one.
PatternListing(pattern, bad, good) ==
    [i \in 1..Len(pattern) |-> [name |-> ItemNames[i]] @@ (IF pattern[i] THEN bad ELSE good)]

\* at most max records, at most one healthy one among them
HealthPatterns(max) == UNION { { [i \in 1..n |-> i # k] : k \in 0..n } : n \in 0..max }

Kinds == {"pods", "deployments", "services", "events"}

\* The fetched state of one namespace: one kind holds a listing of up to
\* MaxRendered records, every other kind is empty or every other kind holds
\* one unhealthy record.
RenderSnapshots ==
    { [pods        |-> PatternListing(IF focus = "pods" THEN p ELSE rest, FillerPod, HealthyPod),
       deployments |-> PatternListing(IF focus = "deployments" THEN p ELSE rest,
                                      FillerDeployment, HealthyDeployment),
       services    |-> PatternListing(IF focus = "services" THEN p ELSE rest,
                                      FillerService, HealthyService),
       events      |-> PatternListing(IF focus = "events" THEN p ELSE rest,
                                      FillerEvent, NormalEvent)] :
        focus \in Kinds, p \in HealthPatterns(MaxRendered), rest \in {<<>>, <<TRUE>>} }

EmptySnapshot == [pods |-> <<>>, deployments |-> <<>>, services |-> <<>>, events |-> <<>>]

\* the namespaces of a cluster: one of them with a snapshot, the others empty
ClusterSnapshots ==
    UNION { { [i \in 1..n |-> IF i = k THEN snap ELSE EmptySnapshot] :
                k \in 1..n, snap \in RenderSnapshots } : n \in 1..MaxNamespaces }

\* part_009 97-137: the three lists of diagnoseNamespace, no fetch failing
LegacyResults(name, snap) ==
    [Namespace |-> name,
     UnhealthyPods |-> LegacyUnhealthyPods(snap.pods),
     MisconfiguredDeployments |-> LegacyUnhealthyDeployments(snap.deployments),
     FailedEvents |-> LegacyFailedEvents(snap.events, Noon),
     ServiceIssues |-> <<>>]

\* terminal.go 386-438 and cmd/report.go 76-150: the lists of
\* output.DiagnosticResults, no fetch failing
RealResults(name, snap) ==
    [Namespace |-> name,
     UnhealthyPods |-> getRealUnhealthyPods(snap.pods),
     FailedEvents |-> getRealFailedEvents(WarningSelector(snap.events), Noon),
     MisconfiguredDeployments |-> getRealMisconfiguredDeployments(snap.deployments),
     ServiceIssues |-> getRealServiceIssues(snap.services)]

\* part_011 80-131: one output.NamespaceReport, no fetch failing.  GetPodStats
\* is not among the sources; its two lists are the pods isUnhealthy rejects
\* and accepts.
TypedNamespaceReport(name, snap) ==
    [Name |-> name,
     HealthyPods |-> SelectSeq(snap.pods, LAMBDA p : ~isUnhealthy(p)),
     UnhealthyPods |-> getRealUnhealthyPods(snap.pods),
     HealthyDeployments |-> SelectSeq(snap.deployments, isDeploymentHealthy),
     MisconfiguredDeployments |-> TypedMisconfiguredDeployments(snap.deployments),
     FailedEvents |-> getRealFailedEvents(WarningSelector(snap.events), Noon),
     ServiceIssues |-> TypedServiceIssues(snap.services)]

\* part_011 74-134
ClusterReportOf(snaps) ==
    LET namespaces == [i \in 1..Len(snaps) |-> TypedNamespaceReport(NamespaceNames[i], snaps[i])]
    IN [Namespaces |-> namespaces, Stats |-> CalculateStats(namespaces)]

OutputFormats == {"terminal", "markdown", "slack", "json"}
WebhookURLs == {"", "https://hooks.slack.com/services/T"}

\* ---- the output steps of the commands --------------------------------

\* part_009 95-313: diagnoseNamespace, from its lists to what it prints
diagnoseNamespaceOutput ==
    /\ renderOp = "none"
    /\ renderOp' = "diagnoseNamespace"
    /\ \E snap \in RenderSnapshots :
         LET results == LegacyResults(NamespaceNames[1], snap) IN
         /\ renderSnapshot' = <<snap>>
         /\ renderReport' = <<results>>
         /\ rendered' = diagnoseNamespacePrint(results)
    /\ outputFormat' = "terminal"
    /\ includeHealthy' = FALSE
    /\ slackAnswer' = NoPost
    /\ slackErr' = ""
    /\ UNCHANGED <<podVars, depVars, svcVars, evVars, logVars, enrVars, dgVars, statVars, qzVars>>

\* terminal.go 440-447 and 501-530: diagnoseCmd.Run, from its lists to its output
diagnoseCmdOutput ==
    /\ renderOp = "none"
    /\ renderOp' = "diagnoseCmd"
    /\ includeHealthy' = FALSE
    /\ \E snap \in RenderSnapshots, format \in OutputFormats :
         LET ns == NamespaceNames[1]
             results == RealResults(ns, snap) IN
         /\ renderSnapshot' = <<snap>>
         /\ renderReport' = <<results>>
         /\ outputFormat' = format
         /\ IF NamespaceHasNoIssues(results)
            THEN /\ rendered' = <<Line("success", ns, "", "No issues found in namespace %s", ns, 0)>>
                 /\ slackAnswer' = NoPost
                 /\ slackErr' = ""
            ELSE CASE format = "terminal" ->
                        /\ rendered' = PrintTerminalOutput(results)
                        /\ slackAnswer' = NoPost
                        /\ slackErr' = ""
                   [] format = "markdown" ->
                        /\ rendered' = GenerateMarkdownReport(results)
                        /\ slackAnswer' = NoPost
                        /\ slackErr' = ""
                   [] format = "slack" ->
                        \E webhook \in WebhookURLs :
                          IF webhook = ""
                          THEN /\ rendered' = <<Line("error", ns, "",
                                                    "Slack webhook URL not provided", "", 0)>>
                               /\ slackAnswer' = NoPost
                               /\ slackErr' = ""
                          ELSE \E answer \in PostAnswers :
                                 /\ rendered' = createSlackMessage(results)
                                 /\ slackAnswer' = answer
                                 /\ slackErr' = PostError(answer)
                   [] OTHER ->
                        /\ rendered' = <<Line("error", ns, "", "Unknown output format: %s",
                                              format, 0)>>
                        /\ slackAnswer' = NoPost
                        /\ slackErr' = ""
    /\ UNCHANGED <<podVars, depVars, svcVars, evVars, logVars, enrVars, dgVars, statVars, qzVars>>

\* cmd/report.go 55-198: runReport with --output markdown --file, from its
\* lists to the file it writes
runReportOutput ==
    /\ renderOp = "none"
    /\ renderOp' = "runReport"
    /\ \E snap \in RenderSnapshots :
         LET results == [RealResults(NamespaceNames[1], snap) EXCEPT !.ServiceIssues = <<>>] IN
         /\ renderSnapshot' = <<[snap EXCEPT !.services = <<>>]>>
         /\ renderReport' = <<results>>
         /\ rendered' = GenerateMarkdownReport(results)
    /\ outputFormat' = "markdown"
    /\ includeHealthy' = FALSE
    /\ slackAnswer' = NoPost
    /\ slackErr' = ""
    /\ UNCHANGED <<podVars, depVars, svcVars, evVars, logVars, enrVars, dgVars, statVars, qzVars>>

\* part_011 74-165: reportCmd.Run, from its namespace reports to its output
reportCmdOutput ==
    /\ renderOp = "none"
    /\ renderOp' = "reportCmd"
    /\ \E snaps \in ClusterSnapshots, format \in OutputFormats, healthy \in BOOLEAN :
         LET report == ClusterReportOf(snaps) IN
         /\ renderSnapshot' = snaps
         /\ renderReport' = report.Namespaces
         /\ outputFormat' = format
         /\ includeHealthy' = healthy
         /\ CASE format = "terminal" ->
                    /\ rendered' = PrintClusterReport(report, healthy)
                    /\ slackAnswer' = NoPost
                    /\ slackErr' = ""
              [] format = "markdown" ->
                    /\ rendered' = GenerateMarkdownClusterReport(report, healthy)
                    /\ slackAnswer' = NoPost
                    /\ slackErr' = ""
              [] format = "slack" ->
                    \E webhook \in WebhookURLs :
                      IF webhook = ""
                      THEN /\ rendered' = <<Line("error", "", "",
                                                "Slack webhook URL not provided", "", 0)>>
                           /\ slackAnswer' = NoPost
                           /\ slackErr' = ""
                      ELSE \E answer \in PostAnswers :
                             /\ rendered' = createSlackClusterReport(report)
                             /\ slackAnswer' = answer
                             /\ slackErr' = PostError(answer)
              [] OTHER ->
                    /\ rendered' = <<Line("error", "", "", "Unknown output format: %s",
                                          format, 0)>>
                    /\ slackAnswer' = NoPost
                    /\ slackErr' = ""
    /\ UNCHANGED <<podVars, depVars, svcVars, evVars, logVars, enrVars, dgVars, statVars, qzVars>>

InitRender ==
    /\ renderSnapshot = <<>>
    /\ renderReport = <<>>
    /\ rendered = <<>>
    /\ renderOp = "none"
    /\ outputFormat = "terminal"
    /\ includeHealthy = FALSE
    /\ slackAnswer = NoPost
    /\ slackErr = ""

(***************************************************************************)
(* Enrichment: the creation time, the events and the logs the classifiers  *)
(* attach to an issue.  src/pkg/k8s/pods.go (GetUnhealthyPodsLegacy,       *)
(* getPodEvents, getPodLogs), src/unnamed/part_003 (GetUnhealthyDeployments,*)
(* getDeploymentEvents), src/unnamed/part_010 (GetMisconfiguredDeployments) *)
(***************************************************************************)
\* metadata.creationTimestamp: an hour before noon, or a text that does not parse
CreationStamps == {Stamp1100, StampNoT}

\* what "get events --field-selector involvedObject.name=<name>" gives: the
\* command fails, its output does not parse, or it lists count events
EventLookups ==
    { [kind |-> "error", count |-> 0], [kind |-> "unparsable", count |-> 0] }
    \cup { [kind |-> "ok", count |-> k] : k \in {0, 1, MaxUpstreamEvents} }

\* what the kubectl logs calls of one getPodLogs give: the first succeeds,
\* only the one with --previous succeeds, or both fail
LogLookups ==
    { [kind |-> "error", text |-> <<>>] }
    \cup { [kind |-> k, text |-> t] :
             k \in {"ok", "previous"},
             t \in {LogText(2, 86, TRUE), LogText(MaxLogLines, 150, TRUE)} }

\* time.Since(creationTime) in seconds; Age keeps its zero value when the
\* text does not parse
AgeSince(stamp, now) ==
    LET t == ParseRFC3339(stamp) IN IF t.ok THEN now - t.unix ELSE 0

\* pods.go 167-182: nil when the command fails or its output does not parse,
\* else every item of the list
getPodEvents(answer) ==
    IF answer.kind = "ok" THEN [i \in 1..answer.count |-> [event |-> i]] ELSE <<>>

\* part_003 110-125
getDeploymentEvents(answer) ==
    IF answer.kind = "ok" THEN [i \in 1..answer.count |-> [event |-> i]] ELSE <<>>

\* pods.go 185-213: getPodLogs as a function of what its calls give
PodLogsOf(answer) ==
    IF answer.kind = "error"
    THEN [logs |-> <<>>, err |-> TRUE]
    ELSE [logs |-> TruncateLogs(answer.text), err |-> FALSE]

\* pods.go 151-158: the logs of the containers that are not ready or were
\* restarted more than 5 times; the error of getPodLogs is dropped
ContainerLogs(pod) ==
    LET issues == LegacyPodIssue(pod).Containers
        wanted == SelectSeq(issues, LAMBDA c : ~c.Ready \/ c.Restarts > RestartThreshold)
    IN  [i \in 1..Len(wanted) |->
            [container |-> wanted[i].Name, text |-> PodLogsOf(pod.logAnswer).logs]]

\* pods.go 90-158
LegacyPodIssueFull(pod, now) ==
    LegacyPodIssue(pod)
        @@ [Age    |-> AgeSince(pod.creationTimestamp, now),
            Events |-> getPodEvents(pod.eventsAnswer),
            Logs   |-> ContainerLogs(pod)]

\* a failing events lookup made fatal to the issue
RECURSIVE LegacyUnhealthyPodsLookupFatal(_, _)
LegacyUnhealthyPodsLookupFatal(items, now) ==
    IF items = <<>> THEN <<>>
    ELSE IF LegacySkipsPod(Head(items)) \/ Head(items).eventsAnswer.kind = "error"
         THEN LegacyUnhealthyPodsLookupFatal(Tail(items), now)
         ELSE <<LegacyPodIssueFull(Head(items), now)>>
              \o LegacyUnhealthyPodsLookupFatal(Tail(items), now)

\* pods.go 67-163
RECURSIVE LegacyUnhealthyPodsFull(_, _)
LegacyUnhealthyPodsFull(items, now) ==
    IF items = <<>> THEN <<>>
    ELSE IF LegacySkipsPod(Head(items))
         THEN LegacyUnhealthyPodsFull(Tail(items), now)
         ELSE <<LegacyPodIssueFull(Head(items), now)>>
              \o LegacyUnhealthyPodsFull(Tail(items), now)

\* part_003 66-101
LegacyDeploymentIssueFull(d, now) ==
    LegacyDeploymentIssue(d)
        @@ [Age    |-> AgeSince(d.creationTimestamp, now),
            Events |-> getDeploymentEvents(d.eventsAnswer)]

\* part_003 10-107
RECURSIVE LegacyUnhealthyDeploymentsFull(_, _)
LegacyUnhealthyDeploymentsFull(items, now) ==
    IF items = <<>> THEN <<>>
    ELSE IF LegacySkipsDeployment(Head(items))
         THEN LegacyUnhealthyDeploymentsFull(Tail(items), now)
         ELSE <<LegacyDeploymentIssueFull(Head(items), now)>>
              \o LegacyUnhealthyDeploymentsFull(Tail(items), now)

\* part_010 65-81: the creation time is a decoded time; Events is set only
\* when GetResourceEvents returns no error
TypedDeploymentIssueFull(d, now) ==
    TypedDeploymentIssue(d)
        @@ [Age    |-> now - ParseRFC3339(d.creationTimestamp).unix,
            Events |-> IF d.eventsAnswer.kind = "ok"
                       THEN [i \in 1..d.eventsAnswer.count |-> [event |-> i]]
                       ELSE <<>>]

\* part_010 50-96
RECURSIVE TypedMisconfiguredDeploymentsFull(_, _)
TypedMisconfiguredDeploymentsFull(items, now) ==
    IF items = <<>> THEN <<>>
    ELSE IF isDeploymentHealthy(Head(items))
         THEN TypedMisconfiguredDeploymentsFull(Tail(items), now)
         ELSE <<TypedDeploymentIssueFull(Head(items), now)>>
              \o TypedMisconfiguredDeploymentsFull(Tail(items), now)

\* the pods followed through their lookups: Pending or Running, with at most
\* one container
EnrichedPodRecords ==
    { [phase |-> ph, containers |-> cs, creationTimestamp |-> stamp,
       eventsAnswer |-> ev, logAnswer |-> lg] :
        ph \in {"Pending", "Running"},
        cs \in {l \in ContainerLists : Len(l) <= 1},
        stamp \in CreationStamps, ev \in EventLookups, lg \in LogLookups }

FillerEnrichedPod ==
    FillerPod @@ [creationTimestamp |-> Stamp1100,
                  eventsAnswer |-> [kind |-> "ok", count |-> 1],
                  logAnswer |-> [kind |-> "ok", text |-> LogText(2, 86, TRUE)]]

EnrichedPodListings == Listings(EnrichedPodRecords, FillerEnrichedPod, MaxEnriched)

\* the deployments followed through their lookups
EnrichedDeploymentRecords(stamps) ==
    { d @@ [creationTimestamp |-> stamp, eventsAnswer |-> ev] :
        d \in {FillerDeployment, HealthyDeployment,
               [FillerDeployment EXCEPT !.readyReplicas = 1, !.availableReplicas = 1,
                                        !.updatedReplicas = 0]},
        stamp \in stamps, ev \in EventLookups }

FillerEnrichedDeployment ==
    FillerDeployment @@ [creationTimestamp |-> Stamp1100,
                         eventsAnswer |-> [kind |-> "ok", count |-> 1]]

EnrichedListings(op) ==
    CASE op = "GetUnhealthyPodsLegacy" -> EnrichedPodListings
      [] op = "GetUnhealthyDeployments" ->
            Listings(EnrichedDeploymentRecords(CreationStamps), FillerEnrichedDeployment,
                     MaxEnriched)
      [] op = "GetMisconfiguredDeployments" ->
            Listings(EnrichedDeploymentRecords({Stamp1100, StampEve}),
                     FillerEnrichedDeployment, MaxEnriched)

ClassifyFull(op, items, now) ==
    CASE op = "GetUnhealthyPodsLegacy" -> LegacyUnhealthyPodsFull(items, now)
      [] op = "GetUnhealthyDeployments" -> LegacyUnhealthyDeploymentsFull(items, now)
      [] op = "GetMisconfiguredDeployments" -> TypedMisconfiguredDeploymentsFull(items, now)

\* one call of a classifier at time now, followed through its lookups
EnrichedPass(op) ==
    /\ enrOp = "none"
    /\ svcOp = "none"
    /\ enrOp' = op
    /\ \E now \in EvaluationTimes :
         /\ enrNow' = now
         /\ \/ \* the listing cannot be fetched or parsed
               /\ enrFetched' = <<>>
               /\ enrIssues' = <<>>
               /\ enrErr' = TRUE
            \/ \E items \in EnrichedListings(op) :
                 /\ enrFetched' = items
                 /\ enrIssues' = ClassifyFull(op, items, now)
                 /\ enrErr' = FALSE
    /\ UNCHANGED <<podVars, depVars, svcVars, evVars, logVars, renderVars, dgVars, statVars, qzVars>>

\* pods.go 67-163
GetUnhealthyPodsLegacyFull == EnrichedPass("GetUnhealthyPodsLegacy")

\* part_003 10-107
GetUnhealthyDeploymentsFull == EnrichedPass("GetUnhealthyDeployments")

\* part_010 50-96
GetMisconfiguredDeploymentsFull == EnrichedPass("GetMisconfiguredDeployments")

InitEnrich ==
    /\ enrFetched = <<>>
    /\ enrIssues = <<>>
    /\ enrNow = Noon
    /\ enrOp = "none"
    /\ enrErr = FALSE

(***************************************************************************)
(* Diagnostic runs, step by step: src/unnamed/part_009 (runDiagnose,       *)
(* diagnoseNamespace), src/pkg/output/terminal.go (diagnoseCmd.Run) and    *)
(* src/unnamed/part_011 (reportCmd.Run)                                    *)
(***************************************************************************)
\* terminal.go 536-540: the kind flags of diagnoseCmd, in the order init
\* registers them; "pods" and "pods-only" are bound to the same variable
DiagnoseFlagTable ==
    << [name |-> "events", var |-> "includeEvents", value |-> TRUE],
       [name |-> "pods", var |-> "includePods", value |-> TRUE],
       [name |-> "deployments", var |-> "includeDeployments", value |-> TRUE],
       [name |-> "services", var |-> "includeServices", value |-> TRUE],
       [name |-> "pods-only", var |-> "includePods", value |-> FALSE] >>

\* part_009 52-53: the kind flags of the diagnose command of runDiagnose
LegacyFlagTable ==
    << [name |-> "pods-only", var |-> "podsOnly", value |-> FALSE],
       [name |-> "deployments-only", var |-> "deploymentsOnly", value |-> FALSE] >>

\* assignments to flag variables, made in order
RECURSIVE StoreAll(_, _)
StoreAll(values, stores) ==
    IF stores = <<>> THEN values
    ELSE StoreAll([values EXCEPT ![Head(stores).var] = Head(stores).value], Tail(stores))

\* Flags().BoolVar(p, name, value, usage) stores value in *p when the flag is
\* registered; parsing the command line stores the value of each flag given
\* in the variable the flag is bound to
BoolVars(table, args) ==
    LET zero == [v \in { table[i].var : i \in 1..Len(table) } |-> FALSE]
        bound(name) == table[CHOOSE i \in 1..Len(table) : table[i].name = name].var
    IN StoreAll(StoreAll(zero, table),
                [i \in 1..Len(args) |-> [var |-> bound(args[i].name), value |-> args[i].value]])

Flag(name, value) == [name |-> name, value |-> value]

\* the command lines of a command, by their kind flags
CommandLines(cmd) ==
    CASE cmd = "runDiagnose" ->
            { <<>>,
              <<Flag("pods-only", TRUE)>>,
              <<Flag("deployments-only", TRUE)>>,
              <<Flag("pods-only", TRUE), Flag("deployments-only", TRUE)>> }
      [] cmd = "diagnoseCmd" ->
            { <<>>,
              <<Flag("pods-only", TRUE)>>,
              <<Flag("pods", TRUE), Flag("events", FALSE), Flag("services", FALSE)>>,
              <<Flag("events", FALSE), Flag("deployments", FALSE), Flag("services", FALSE)>> }
      [] cmd = "reportCmd" -> { <<>> }

\* the kinds a command fetches, in the order of its code: part_009 103, 115
\* and 127, terminal.go 393, 405, 417 and 429, part_011 92-127
CheckedKinds(cmd, args) ==
    LET when(cond, kind) == IF cond THEN <<kind>> ELSE <<>> IN
    CASE cmd = "runDiagnose" ->
            LET v == BoolVars(LegacyFlagTable, args) IN
            when(~v.deploymentsOnly, "pods")
            \o when(~v.podsOnly, "deployments")
            \o when(~v.podsOnly /\ ~v.deploymentsOnly, "events")
      [] cmd = "diagnoseCmd" ->
            LET v == BoolVars(DiagnoseFlagTable, args) IN
            when(v.includePods, "pods")
            \o when(v.includeEvents, "events")
            \o when(v.includeDeployments, "deployments")
            \o when(v.includeServices, "services")
      [] cmd = "reportCmd" -> <<"pods", "deployments", "events", "services">>

\* what a successful fetch of one kind lists
FetchedListings(cmd, kind) ==
    (IF cmd = "reportCmd" THEN {} ELSE {<<>>})
    \cup CASE kind = "pods" ->
                {PatternListing(<<TRUE, FALSE, TRUE>>, FillerPod, HealthyPod)}
           [] kind = "deployments" ->
                {PatternListing(<<TRUE>>, FillerDeployment, HealthyDeployment)}
           [] kind = "events" ->
                {PatternListing(<<TRUE>>, FillerEvent, NormalEvent)}
           [] kind = "services" ->
                {PatternListing(<<TRUE>>, FillerService, HealthyService)}

FetchOutcomes(cmd, kind) ==
    {[ok |-> FALSE, items |-> <<>>]}
    \cup { [ok |-> TRUE, items |-> l] : l \in FetchedListings(cmd, kind) }

\* part_011 70-71 and part_010 52, 144, 172: reportCmd.Run makes its lists
\* through client-go under a context of 60 s, and a List under a context
\* whose deadline passed returns the context's error.  terminal.go 383-384
\* makes a context of 30 s that client.go 103-158 never hands to kubectl:
\* after the deadline a fetch of diagnoseCmd.Run has every outcome it had
\* before.  part_009 has no context.
HasDeadline(cmd) == cmd \in {"diagnoseCmd", "reportCmd"}

OutcomesUnder(cmd, kind, expired) ==
    IF expired /\ cmd = "reportCmd" THEN {[ok |-> FALSE, items |-> <<>>]}
    ELSE FetchOutcomes(cmd, kind)

\* the classifier a command calls for a kind
ClassifyKind(cmd, kind, items) ==
    CASE cmd = "runDiagnose" /\ kind = "pods" -> LegacyUnhealthyPods(items)
      [] cmd = "runDiagnose" /\ kind = "deployments" -> LegacyUnhealthyDeployments(items)
      [] cmd = "runDiagnose" /\ kind = "events" -> LegacyFailedEvents(items, Noon)
      [] cmd = "diagnoseCmd" /\ kind = "deployments" -> getRealMisconfiguredDeployments(items)
      [] cmd = "diagnoseCmd" /\ kind = "services" -> getRealServiceIssues(items)
      [] cmd = "reportCmd" /\ kind = "deployments" -> TypedMisconfiguredDeployments(items)
      [] cmd = "reportCmd" /\ kind = "services" -> TypedServiceIssues(items)
      [] kind = "pods" -> getRealUnhealthyPods(items)
      [] kind = "events" -> getRealFailedEvents(WarningSelector(items), Noon)

\* the results of a namespace before any fetch
EmptyResults(cmd, ns) ==
    IF cmd = "reportCmd" THEN NamespaceReport(ns)
    ELSE [Namespace |-> ns, UnhealthyPods |-> <<>>, FailedEvents |-> <<>>,
          MisconfiguredDeployments |-> <<>>, ServiceIssues |-> <<>>]

\* "else { results.X = ... }": the list of a kind that was fetched
StoreKind(cmd, results, kind, items) ==
    LET stored == [results EXCEPT ![CategoryField[kind]] = ClassifyKind(cmd, kind, items)] IN
    IF cmd = "reportCmd" /\ kind = "pods"
    THEN [stored EXCEPT !.HealthyPods = SelectSeq(items, LAMBDA p : ~isUnhealthy(p))]
    ELSE IF cmd = "reportCmd" /\ kind = "deployments"
    THEN [stored EXCEPT !.HealthyDeployments = SelectSeq(items, isDeploymentHealthy)]
    ELSE stored

FetchResultDiscardsAll(cmd, results, kind, outcome) ==
    IF outcome.ok THEN StoreKind(cmd, results, kind, outcome.items)
    ELSE EmptyResults(cmd, IF cmd = "reportCmd" THEN results.Name ELSE results.Namespace)

\* "if err != nil { color.Red(...) } else { results.X = ... }": a fetch that
\* failed assigns nothing
FetchResult(cmd, results, kind, outcome) ==
    IF outcome.ok THEN StoreKind(cmd, results, kind, outcome.items) ELSE results

\* terminal.go 541: --max-items, its default and smaller values
MaxItemsDefault == 5
MaxItemsFlags == {-1, 0, 1, MaxItemsDefault}

\* the loops without their "if i >= maxItems { break }"
WorkItemsUncapped(cmd, results, maxItems) ==
    [k \in 1..Len(results.UnhealthyPods) |-> [category |-> "pods", i |-> k]]
    \o [k \in 1..Len(results.MisconfiguredDeployments) |-> [category |-> "deployments", i |-> k]]

\* the issues the analysis loops visit, in order: the pods, then the
\* deployments; diagnoseCmd.Run leaves each loop at i >= maxItems
WorkItems(cmd, results, maxItems) ==
    LET limit(n) == IF cmd = "diagnoseCmd" THEN Min(n, maxItems) ELSE n
        nPods == limit(Len(results.UnhealthyPods))
        nDeps == limit(Len(results.MisconfiguredDeployments))
    IN  [k \in 1..nPods |-> [category |-> "pods", i |-> k]]
        \o [k \in 1..nDeps |-> [category |-> "deployments", i |-> k]]

\* what a call of the Amazon Q client gives: a text, or "" with an error
\* (the CLI fails, or it is not installed)
AnalysisText == "analysis"
FixText == "fix"
Answers(service) == IF service = "absent" THEN {"absent"} ELSE {"ok", "error"}

AfterTurnStopsOnError(cmd, cursor, turns, answer) ==
    IF cursor < turns /\ answer = "ok" THEN "analyze"
    ELSE IF cmd = "runDiagnose" THEN "print" ELSE "output"

\* where a turn of an analysis loop leaves the run: an error is printed and
\* the loop goes on ("continue" in terminal.go 462 and 486, the if/else of
\* part_009 147-151), so only the last turn leaves the loops
AfterTurn(cmd, cursor, turns, answer) ==
    IF cursor < turns THEN "analyze"
    ELSE IF cmd = "runDiagnose" THEN "print" ELSE "output"

\* ---- the steps of a run ----------------------------------------------

dgFlags ==
    <<dgCmd, dgNamespaces, dgArgs, dgKinds, dgFix, dgMaxItems, dgService, dgFormat>>

AfterFetchStopsWhenExpired(cmd, results, maxItems) ==
    CASE dgExpired -> "done"
      [] cmd = "reportCmd" -> "next"
      [] cmd = "diagnoseCmd" /\ NamespaceHasNoIssues(results) -> "done"
      [] WorkItems(cmd, results, maxItems) # <<>> -> "analyze"
      [] cmd = "runDiagnose" -> "print"
      [] OTHER -> "output"

\* where the fetches of a namespace leave the run: part_011 129-130,
\* terminal.go 440-447 and 449-499, part_009 139-188
AfterFetch(cmd, results, maxItems) ==
    CASE cmd = "reportCmd" -> "next"
      [] cmd = "diagnoseCmd" /\ NamespaceHasNoIssues(results) -> "done"
      [] WorkItems(cmd, results, maxItems) # <<>> -> "analyze"
      [] cmd = "runDiagnose" -> "print"
      [] OTHER -> "output"

\* terminal.go 440-447: the four lists are empty
NoIssuesLines(cmd, ns, results) ==
    IF cmd = "diagnoseCmd" /\ NamespaceHasNoIssues(results)
    THEN <<Line("success", ns, "", "No issues found in namespace %s", ns, 0)>>
    ELSE <<>>

\* the command starts: its flags are read, the client is made and the
\* namespaces are listed
Start(cmd) ==
    /\ dgPc = "idle"
    /\ dgCmd' = cmd
    /\ \E fixFlag \in (IF cmd = "reportCmd" THEN {FALSE} ELSE BOOLEAN) : dgFix' = fixFlag
    /\ \E service \in (IF cmd = "reportCmd" THEN {"present"} ELSE {"present", "absent"}) :
          dgService' = service
    /\ \E format \in (IF cmd = "diagnoseCmd" THEN {"terminal", "markdown"} ELSE {"terminal"}) :
          dgFormat' = format
    /\ \E args \in CommandLines(cmd),
          items \in (IF cmd = "diagnoseCmd" THEN MaxItemsFlags ELSE {MaxItemsDefault}) :
          LET kinds == CheckedKinds(cmd, args)
              first == EmptyResults(cmd, NamespaceNames[1]) IN
          /\ dgArgs' = args
          /\ dgKinds' = kinds
          /\ dgMaxItems' = items
          /\ \/ \* the client cannot be made, or the namespaces cannot be listed
                /\ dgNamespaces' = <<>>
                /\ dgConsole' = <<Line("error", "", "", "Error getting namespaces: %s", "", 0)>>
                /\ dgResults' = EmptyResults(cmd, "")
                /\ dgPc' = "done"
             \/ \E n \in 1..(IF cmd = "diagnoseCmd" THEN 1 ELSE MaxDiagnosed) :
                  /\ dgNamespaces' = SubSeq(NamespaceNames, 1, n)
                  /\ dgResults' = first
                  /\ IF kinds = <<>>
                     THEN /\ dgConsole' = NoIssuesLines(cmd, NamespaceNames[1], first)
                          /\ dgPc' = AfterFetch(cmd, first, items)
                     ELSE /\ dgConsole' = <<>>
                          /\ dgPc' = "fetch"
    /\ dgNs' = 1
    /\ dgKind' = 1
    /\ dgReport' = <<>>
    /\ dgAttempts' = <<>>
    /\ dgCalls' = <<>>
    /\ dgCursor' = 1
    /\ dgExpired' = FALSE
    /\ UNCHANGED <<podVars, depVars, svcVars, evVars, logVars, renderVars, enrVars, statVars, qzVars>>

\* part_009 57-93
runDiagnose == Start("runDiagnose")

\* terminal.go 363-390
diagnoseCmdRun == Start("diagnoseCmd")

\* part_011 38-78
reportCmdRun == Start("reportCmd")

\* part_009 103-137, terminal.go 392-447, part_011 92-127: the fetch of the
\* next kind of the current namespace
FetchKind ==
    /\ dgPc = "fetch"
    /\ LET ns == dgNamespaces[dgNs]
           kind == dgKinds[dgKind] IN
       \E outcome \in OutcomesUnder(dgCmd, kind, dgExpired) :
          LET results == FetchResult(dgCmd, dgResults, kind, outcome)
              line == IF outcome.ok
                      THEN Line("found", ns, kind, "Found %d", "",
                                Len(results[CategoryField[kind]]))
                      ELSE Line("error", ns, kind, "Error checking: %s", "", 0)
          IN  /\ dgResults' = results
              /\ dgAttempts' = Append(dgAttempts,
                                       [ns |-> ns, kind |-> kind, ok |-> outcome.ok,
                                        found |-> Len(results[CategoryField[kind]]),
                                        expired |-> dgExpired])
              /\ IF dgKind < Len(dgKinds)
                 THEN /\ dgKind' = dgKind + 1
                      /\ dgPc' = "fetch"
                      /\ dgConsole' = Append(dgConsole, line)
                 ELSE /\ dgKind' = dgKind
                      /\ dgPc' = AfterFetch(dgCmd, results, dgMaxItems)
                      /\ dgConsole' = Append(dgConsole, line) \o NoIssuesLines(dgCmd, ns, results)
    /\ UNCHANGED <<dgFlags, dgNs, dgReport, dgCalls, dgCursor, dgExpired>>
    /\ UNCHANGED <<podVars, depVars, svcVars, evVars, logVars, renderVars, enrVars, statVars, qzVars>>

\* part_009 144-185, terminal.go 454-499: one turn of an analysis loop
AnalyzeIssue ==
    /\ dgPc = "analyze"
    /\ LET ns == dgNamespaces[dgNs]
           work == WorkItems(dgCmd, dgResults, dgMaxItems)
           w == work[dgCursor]
           field == CategoryField[w.category]
           issue == dgResults[field][w.i] IN
       \E a \in Answers(dgService) :
          LET fixCalled == dgFix /\ (dgCmd = "runDiagnose" \/ a = "ok") IN
          \E f \in (IF fixCalled THEN Answers(dgService) ELSE {"none"}) :
             LET analysed == IF a = "ok" THEN [Analysis |-> AnalysisText] @@ issue ELSE issue
                 fixed == IF f = "ok" THEN [Fix |-> FixText] @@ analysed ELSE analysed
             IN  /\ dgResults' = [dgResults EXCEPT ![field][w.i] = fixed]
                 /\ dgCalls' = dgCalls
                        \o <<[category |-> w.category, name |-> issue.Name,
                              call |-> "analysis", answer |-> a]>>
                        \o (IF fixCalled
                            THEN <<[category |-> w.category, name |-> issue.Name,
                                    call |-> "fix", answer |-> f]>>
                            ELSE <<>>)
                 /\ dgConsole' = dgConsole
                        \o (IF a # "ok"
                            THEN <<Line("error", ns, w.category, "Error analyzing: %s",
                                        issue.Name, 0)>>
                            ELSE <<>>)
                        \o (IF fixCalled /\ f # "ok"
                            THEN <<Line("error", ns, w.category, "Error generating fix: %s",
                                        issue.Name, 0)>>
                            ELSE <<>>)
                 /\ dgCursor' = dgCursor + 1
                 /\ dgPc' = AfterTurn(dgCmd, dgCursor, Len(work), a)
    /\ UNCHANGED <<dgFlags, dgNs, dgKind, dgReport, dgAttempts, dgExpired>>
    /\ UNCHANGED <<podVars, depVars, svcVars, evVars, logVars, renderVars, enrVars, statVars, qzVars>>

\* part_009 188-312: diagnoseNamespace prints the results of the namespace
PrintNamespace ==
    /\ dgPc = "print"
    /\ dgConsole' = dgConsole \o diagnoseNamespacePrint(dgResults)
    /\ dgPc' = "next"
    /\ UNCHANGED <<dgFlags, dgNs, dgKind, dgResults, dgReport, dgAttempts, dgCalls, dgCursor,
                   dgExpired>>
    /\ UNCHANGED <<podVars, depVars, svcVars, evVars, logVars, renderVars, enrVars, statVars, qzVars>>

\* part_009 90-92 and part_011 82-131: the loop over the namespaces goes on.
\* The console and the calls are kept from the start of the current
\* namespace on, the fetches from the start of the run.
NextNamespace ==
    /\ dgPc = "next"
    /\ dgReport' = IF dgCmd = "reportCmd" THEN Append(dgReport, dgResults) ELSE dgReport
    /\ IF dgNs < Len(dgNamespaces)
       THEN /\ dgNs' = dgNs + 1
            /\ dgKind' = 1
            /\ dgResults' = EmptyResults(dgCmd, dgNamespaces[dgNs + 1])
            /\ dgConsole' = <<>>
            /\ dgCalls' = <<>>
            /\ dgCursor' = 1
            /\ dgPc' = IF dgKinds = <<>>
                       THEN AfterFetch(dgCmd, EmptyResults(dgCmd, dgNamespaces[dgNs + 1]),
                                       dgMaxItems)
                       ELSE "fetch"
       ELSE /\ dgPc' = IF dgCmd = "reportCmd" THEN "output" ELSE "done"
            /\ UNCHANGED <<dgNs, dgKind, dgResults, dgConsole, dgCalls, dgCursor>>
    /\ UNCHANGED <<dgFlags, dgAttempts, dgExpired>>
    /\ UNCHANGED <<podVars, depVars, svcVars, evVars, logVars, renderVars, enrVars, statVars, qzVars>>

\* terminal.go 383 and part_011 70: the deadline of the context passes while
\* the run is at any of its steps; nothing in either Run waits for it
Expire ==
    /\ HasDeadline(dgCmd)
    /\ dgPc \in {"fetch", "analyze", "next", "output"}
    /\ ~dgExpired
    /\ dgExpired' = TRUE
    /\ UNCHANGED <<dgFlags, dgPc, dgNs, dgKind, dgResults, dgReport, dgAttempts, dgConsole,
                   dgCalls, dgCursor>>
    /\ UNCHANGED <<podVars, depVars, svcVars, evVars, logVars, renderVars, enrVars, statVars, qzVars>>

\* terminal.go 501-515: the console or the document of diagnoseCmd.Run
OutputDiagnose ==
    /\ dgPc = "output"
    /\ dgCmd = "diagnoseCmd"
    /\ dgConsole' = dgConsole \o (IF dgFormat = "markdown"
                                  THEN GenerateMarkdownReport(dgResults)
                                  ELSE PrintTerminalOutput(dgResults))
    /\ dgPc' = "done"
    /\ UNCHANGED <<dgFlags, dgNs, dgKind, dgResults, dgReport, dgAttempts, dgCalls, dgCursor,
                   dgExpired>>
    /\ UNCHANGED <<podVars, depVars, svcVars, evVars, logVars, renderVars, enrVars, statVars, qzVars>>

\* part_011 133-139: the statistics and the console report of reportCmd.Run
OutputReport ==
    /\ dgPc = "output"
    /\ dgCmd = "reportCmd"
    /\ dgConsole' = dgConsole
          \o PrintClusterReport([Namespaces |-> dgReport, Stats |-> CalculateStats(dgReport)],
                                FALSE)
    /\ dgPc' = "done"
    /\ UNCHANGED <<dgFlags, dgNs, dgKind, dgResults, dgReport, dgAttempts, dgCalls, dgCursor,
                   dgExpired>>
    /\ UNCHANGED <<podVars, depVars, svcVars, evVars, logVars, renderVars, enrVars, statVars, qzVars>>

InitDiagnose ==
    /\ dgCmd = "none"
    /\ dgPc = "idle"
    /\ dgNamespaces = <<>>
    /\ dgNs = 1
    /\ dgArgs = <<>>
    /\ dgKinds = <<>>
    /\ dgKind = 1
    /\ dgFix = FALSE
    /\ dgMaxItems = MaxItemsDefault
    /\ dgService = "present"
    /\ dgFormat = "terminal"
    /\ dgResults = EmptyResults("none", "")
    /\ dgReport = <<>>
    /\ dgAttempts = <<>>
    /\ dgConsole = <<>>
    /\ dgCalls = <<>>
    /\ dgCursor = 1
    /\ dgExpired = FALSE

(***************************************************************************)
(* The statistics of a cluster report over its life:                       *)
(* src/pkg/output/terminal.go (ClusterReport, CalculateStats) and          *)
(* src/unnamed/part_011 (reportCmd.Run appends the namespace reports)      *)
(***************************************************************************)
\* a list of n entries
ListOf(n) == SubSeq(ItemNames, 1, n)

\* the namespace reports a run can append: every list with its own length
StatNamespaceReports(name) ==
    { [Name |-> name,
       HealthyPods |-> ListOf(hp), UnhealthyPods |-> ListOf(up),
       HealthyDeployments |-> ListOf(hd), MisconfiguredDeployments |-> ListOf(md),
       FailedEvents |-> ListOf(fe), ServiceIssues |-> ListOf(si)] :
        hp \in 0..MaxStatPods, up \in 0..MaxStatPods,
        hd \in 0..1, md \in 0..1, fe \in 0..1, si \in 0..1 }

\* part_011 130: clusterReport.Namespaces = append(clusterReport.Namespaces, namespaceReport)
AppendNamespace ==
    /\ Len(stNamespaces) < MaxStatNamespaces
    /\ \E report \in StatNamespaceReports(NamespaceNames[Len(stNamespaces) + 1]) :
          stNamespaces' = Append(stNamespaces, report)
    /\ stOp' = "append"
    /\ UNCHANGED <<stStats, stCalls>>
    /\ UNCHANGED <<podVars, depVars, svcVars, evVars, logVars, renderVars, enrVars, dgVars, qzVars>>

\* terminal.go 55-72: r.Stats = stats, stats computed from r.Namespaces
CalculateStatsCall ==
    /\ stCalls < MaxStatCalls
    /\ stStats' = CalculateStats(stNamespaces)
    /\ stCalls' = stCalls + 1
    /\ stOp' = "CalculateStats"
    /\ UNCHANGED stNamespaces
    /\ UNCHANGED <<podVars, depVars, svcVars, evVars, logVars, renderVars, enrVars, dgVars, qzVars>>

\* part_011 74-77: clusterReport := output.ClusterReport{Timestamp: time.Now()}
InitStats ==
    /\ stNamespaces = <<>>
    /\ stStats = ZeroStats(0)
    /\ stOp = "none"
    /\ stCalls = 0

(***************************************************************************)
(* Pods with the detail of their status: the container states, the pod     *)
(* conditions and the reason and message of the pod status, as             *)
(* src/pkg/k8s/pods.go and src/pkg/k8s/client.go decode and use them       *)
(***************************************************************************)
NoText == <<>>
\* a text made by fmt.Sprintf, by its format and the values of its verbs
Part(format, count, reason, code) ==
    [fmt |-> format, count |-> count, reason |-> reason, code |-> code]
Plain(string) == <<Part(string, 0, "", 0)>>

\* a state of a container that "kubectl get pods -o json" does not list
Missing == [present |-> FALSE, reason |-> "", message |-> NoText, exitCode |-> 0]

WaitingStates ==
    { Missing,
      [present |-> TRUE, reason |-> "CrashLoopBackOff",
       message |-> Plain("back-off restarting failed container"), exitCode |-> 0],
      [present |-> TRUE, reason |-> "", message |-> NoText, exitCode |-> 0] }

TerminatedStates ==
    { Missing,
      [present |-> TRUE, reason |-> "Error", message |-> Plain("exited"), exitCode |-> 1] }

LastTerminatedStates ==
    { Missing,
      [present |-> TRUE, reason |-> "OOMKilled", message |-> NoText, exitCode |-> 137] }

DetailContainerStatuses ==
    [ready : BOOLEAN, restartCount : RestartCounts, waiting : WaitingStates,
     terminated : TerminatedStates, lastTerminated : LastTerminatedStates]

FillerContainer ==
    [ready |-> TRUE, restartCount |-> RestartThreshold, waiting |-> Missing,
     terminated |-> Missing, lastTerminated |-> Missing]

\* up to MaxDetailContainers containers, one of them drawn freely
DetailContainerLists == Listings(DetailContainerStatuses, FillerContainer, MaxDetailContainers)

PodCondition(type, status, reason, message) ==
    [type |-> type, status |-> status, reason |-> reason, message |-> message]

PodConditionLists ==
    { <<>>,
      <<PodCondition("Ready", "True", "", NoText)>>,
      <<PodCondition("PodScheduled", "False", "Unschedulable", Plain("0/3 nodes are available"))>>,
      <<PodCondition("Initialized", "True", "", NoText),
        PodCondition("Ready", "False", "ContainersNotReady", Plain("containers with unready status"))>>,
      <<PodCondition("Ready", "False", "ContainersNotReady", Plain("containers with unready status")),
        PodCondition("PodScheduled", "Unknown", "SchedulerError", Plain("scheduler unavailable"))>> }

PodStatusReasons ==
    { [reason |-> "", message |-> NoText],
      [reason |-> "Evicted", message |-> Plain("The node was low on resource: memory")] }

DetailPodRecords ==
    { [name |-> ItemNames[1], phase |-> phase, statusReason |-> sr.reason,
       statusMessage |-> sr.message, conditions |-> conds, containers |-> cs] :
        phase \in {"Running", "Pending", "Succeeded"}, sr \in PodStatusReasons,
        conds \in PodConditionLists, cs \in DetailContainerLists }

\* json.Unmarshal into a struct: a state the document does not list, or a
\* field the struct does not declare, is the zero value
DecodeState(state, fields) ==
    [f \in {"reason", "message", "exitCode"} |->
        IF state.present /\ f \in fields THEN state[f]
        ELSE IF f = "reason" THEN "" ELSE IF f = "message" THEN NoText ELSE 0]

\* pods.go 21-61: the struct GetUnhealthyPodsLegacy decodes a pod into
LegacyDecodePod(pod) ==
    [name |-> pod.name, phase |-> pod.phase,
     reason |-> pod.statusReason, message |-> pod.statusMessage,
     containers |-> [i \in 1..Len(pod.containers) |->
        LET c == pod.containers[i] IN
        [name |-> c.name, ready |-> c.ready, restartCount |-> c.restartCount,
         waiting |-> DecodeState(c.waiting, {"reason", "message"}),
         terminated |-> DecodeState(c.terminated, {"reason", "message", "exitCode"}),
         lastTerminated |-> DecodeState(c.lastTerminated, {"reason", "message", "exitCode"})]]]

\* client.go 169-188: the struct getRealUnhealthyPods decodes a pod into
RealDecodePod(pod) ==
    [name |-> pod.name, phase |-> pod.phase,
     containers |-> [i \in 1..Len(pod.containers) |->
        LET c == pod.containers[i] IN
        [name |-> c.name, ready |-> c.ready, restartCount |-> c.restartCount,
         waiting |-> DecodeState(c.waiting, {"reason", "message"})]]]

\* the fields of a ContainerIssue that are not assigned
ZeroContainerIssue(c) ==
    [Name |-> c.name, Ready |-> c.ready, Restarts |-> c.restartCount,
     Status |-> "", Reason |-> "", Message |-> NoText, ExitCode |-> 0]

\* pods.go 104-146
LegacyContainerIssueDetail(c) ==
    LET issue == ZeroContainerIssue(c) IN
    IF ~c.ready
    THEN IF c.waiting.reason # ""
         THEN [issue EXCEPT !.Status = "Waiting", !.Reason = c.waiting.reason,
                            !.Message = c.waiting.message]
         ELSE IF c.terminated.reason # ""
         THEN [issue EXCEPT !.Status = "Terminated", !.Reason = c.terminated.reason,
                            !.Message = c.terminated.message,
                            !.ExitCode = c.terminated.exitCode]
         ELSE [issue EXCEPT !.Status = "Not Ready"]
    ELSE IF c.restartCount > RestartThreshold
         THEN LET restarted == Part("Container has restarted %d times", c.restartCount, "", 0)
                  last == Part(", last exit reason: %s (code: %d)", 0,
                               c.lastTerminated.reason, c.lastTerminated.exitCode)
              IN IF c.lastTerminated.reason # ""
                 THEN [issue EXCEPT !.Status = "Running", !.Reason = "HighRestartCount",
                                    !.Message = <<restarted, last>>,
                                    !.ExitCode = c.lastTerminated.exitCode]
                 ELSE [issue EXCEPT !.Status = "Running", !.Reason = "HighRestartCount",
                                    !.Message = <<restarted>>]
         ELSE [issue EXCEPT !.Status = "Running"]

\* client.go 216-235
RealContainerIssueDetail(c) ==
    LET issue == ZeroContainerIssue(c) IN
    IF ~c.ready
    THEN IF c.waiting.reason # ""
         THEN [issue EXCEPT !.Status = "Not Ready", !.Reason = c.waiting.reason,
                            !.Message = c.waiting.message]
         ELSE [issue EXCEPT !.Status = "Not Ready"]
    ELSE [issue EXCEPT !.Status = "Running"]

PodReasonFromConditions(pod) ==
    LET failing == SelectSeq(pod.conditions, LAMBDA cond : cond.status # "True") IN
    IF failing = <<>> THEN [Reason |-> "", Message |-> NoText]
    ELSE [Reason |-> failing[1].reason, Message |-> failing[1].message]

\* pods.go 90-97: Message: pod.Status.Message, Reason: pod.Status.Reason
LegacyPodReason(pod) ==
    LET d == LegacyDecodePod(pod) IN [Reason |-> d.reason, Message |-> d.message]

\* client.go 210-214: neither Reason nor Message is assigned
RealPodReason(pod) == [Reason |-> "", Message |-> NoText]

\* pods.go 89-160, the enrichment left aside
LegacyPodIssueDetail(pod) ==
    LET d == LegacyDecodePod(pod) IN
    [Name |-> d.name, Status |-> d.phase,
     Reason |-> LegacyPodReason(pod).Reason, Message |-> LegacyPodReason(pod).Message,
     Containers |-> [i \in 1..Len(d.containers) |-> LegacyContainerIssueDetail(d.containers[i])]]

\* client.go 209-238
RealPodIssueDetail(pod) ==
    LET d == RealDecodePod(pod) IN
    [Name |-> d.name, Status |-> d.phase,
     Reason |-> RealPodReason(pod).Reason, Message |-> RealPodReason(pod).Message,
     Containers |-> [i \in 1..Len(d.containers) |-> RealContainerIssueDetail(d.containers[i])]]

\* one call of a pod classifier on a listing of one pod
PodDetailPass(op) ==
    /\ podOp = "none"
    /\ podOp' = op
    /\ \E pod \in DetailPodRecords :
          /\ pods' = <<pod>>
          /\ unhealthyPods' =
                IF op = "GetUnhealthyPodsLegacy"
                THEN (IF LegacySkipsPod(LegacyDecodePod(pod)) THEN <<>>
                      ELSE <<LegacyPodIssueDetail(pod)>>)
                ELSE (IF isUnhealthy(RealDecodePod(pod)) THEN <<RealPodIssueDetail(pod)>>
                      ELSE <<>>)
    /\ podErr' = FALSE
    /\ UNCHANGED <<depVars, svcVars, evVars, logVars, renderVars, enrVars, dgVars, statVars, qzVars>>

\* pods.go 13-164
GetUnhealthyPodsLegacyDetail == PodDetailPass("GetUnhealthyPodsLegacy")

\* client.go 140-242
GetUnhealthyPodsDetail == PodDetailPass("GetUnhealthyPods")

InitPods ==
    /\ pods = <<>>
    /\ unhealthyPods = <<>>
    /\ podOp = "none"
    /\ podErr = FALSE

(***************************************************************************)
(* The quiz loop: src/unnamed/part_008 (startGame).  For each question the *)
(* main loop starts a timer goroutine and a reader goroutine, waits in a   *)
(* select for the first of the two, and then reads a line itself ("Press   *)
(* Enter to continue").  The reader goroutines and the main loop share one *)
(* bufio.Reader over the standard input.                                   *)
(***************************************************************************)
MaxQuestions == 2
MaxTypedLines == 4

Questions == 1..MaxQuestions

\* part_008 374, 389, 405, 421: scenario.correctAnswer of the first scenarios
CorrectAnswers == <<"B", "C", "B", "A">>

\* a line the player typed: the prompt it was typed at and its characters,
\* the newline included
TypedLine(question, prompt, chars) ==
    [question |-> question, prompt |-> prompt, chars |-> chars]

AnswerKeys == {<<"b", "\n">>, <<"C", "\n">>}
EnterKey == <<"\n">>

\* two goroutines inside ReadString of the same bufio.Reader race on its
\* buffer: the line one of them returns is the line typed or any mix of
\* the buffer's bytes
Garbled == <<"?">>

RECURSIVE TrimLeft(_)
TrimLeft(chars) ==
    IF chars # <<>> /\ Head(chars) \in {" ", "\n"} THEN TrimLeft(Tail(chars)) ELSE chars

RECURSIVE TrimRight(_)
TrimRight(chars) ==
    IF chars # <<>> /\ chars[Len(chars)] \in {" ", "\n"}
    THEN TrimRight(SubSeq(chars, 1, Len(chars) - 1))
    ELSE chars

\* strings.TrimSpace
TrimSpace(chars) == TrimRight(TrimLeft(chars))

\* strings.ToUpper
ToUpper(chars) ==
    [k \in 1..Len(chars) |->
        CASE chars[k] = "a" -> "A"
          [] chars[k] = "b" -> "B"
          [] chars[k] = "c" -> "C"
          [] OTHER -> chars[k]]

\* part_008 205-207: userAnswer == scenario.correctAnswer
IsCorrect(question, userAnswer) == ToUpper(userAnswer) = <<CorrectAnswers[question]>>

\* the goroutines that are inside reader.ReadString
BlockedReaders == { q \in Questions : qzReader[q].state = "reading" }

ReadersInside == Cardinality(BlockedReaders) + (IF qzPc = "continue" THEN 1 ELSE 0)

\* what ReadString returns for the line at the head of the input
ReadOutcomes ==
    IF ReadersInside > 1
    THEN {Head(qzStdin), [Head(qzStdin) EXCEPT !.chars = Garbled]}
    ELSE {Head(qzStdin)}

\* part_008 166-187: the i-th question is printed, its timer goroutine and
\* its reader goroutine are started, and the main loop enters the select
AskQuestion(question) ==
    /\ qzQuestion' = question
    /\ qzTimer' = [qzTimer EXCEPT ![question] = "running"]
    /\ qzReader' = [qzReader EXCEPT ![question] = [state |-> "reading", line |-> <<>>]]
    /\ qzPc' = "select"

\* part_008 205-212: the answer is compared and the score counted
Evaluate(question, userAnswer, timedOut) ==
    /\ qzAnswers' = Append(qzAnswers, [answer |-> userAnswer, timedOut |-> timedOut])
    /\ qzScore' = IF IsCorrect(question, userAnswer) THEN qzScore + 1 ELSE qzScore
    /\ qzPc' = "continue"

\* part_008 113-127: startGame comes to its first question
startGame ==
    /\ qzPc = "idle"
    /\ AskQuestion(1)
    /\ UNCHANGED <<qzStdin, qzTyped, qzAnswers, qzScore, qzLines>>
    /\ UNCHANGED <<podVars, depVars, svcVars, evVars, logVars, renderVars, enrVars, dgVars,
                   statVars>>

\* the player types a line at the prompt that is on the screen: an answer
\* while the question's timer runs, Enter at "Press Enter to continue"
PlayerTypes ==
    /\ qzPc \in {"select", "continue"}
    /\ qzStdin = <<>>
    /\ qzLines < MaxTypedLines
    /\ qzLines' = qzLines + 1
    /\ IF qzPc = "select"
       THEN /\ qzTimer[qzQuestion] = "running"
            /\ \E chars \in AnswerKeys :
                  LET line == TypedLine(qzQuestion, "answer", chars) IN
                  /\ qzStdin' = <<line>>
                  /\ qzTyped' = IF qzTyped[qzQuestion] = <<>>
                                THEN [qzTyped EXCEPT ![qzQuestion] = <<line>>]
                                ELSE qzTyped
       ELSE /\ qzStdin' = <<TypedLine(qzQuestion, "continue", EnterKey)>>
            /\ UNCHANGED qzTyped
    /\ UNCHANGED <<qzPc, qzQuestion, qzTimer, qzReader, qzAnswers, qzScore>>
    /\ UNCHANGED <<podVars, depVars, svcVars, evVars, logVars, renderVars, enrVars, dgVars,
                   statVars>>

\* part_008 175-178: time.Sleep(timeLeft) returns and the timer goroutine
\* puts a value into its buffered channel
TimerFires ==
    /\ qzPc = "select"
    /\ qzTimer[qzQuestion] = "running"
    /\ qzTimer' = [qzTimer EXCEPT ![qzQuestion] = "fired"]
    /\ UNCHANGED <<qzPc, qzQuestion, qzReader, qzStdin, qzTyped, qzAnswers, qzScore, qzLines>>
    /\ UNCHANGED <<podVars, depVars, svcVars, evVars, logVars, renderVars, enrVars, dgVars,
                   statVars>>

\* part_008 186-187: reader.ReadString returns in the reader goroutine of a
\* question, which then blocks in the send on its unbuffered channel
ReaderReads(question) ==
    /\ qzReader[question].state = "reading"
    /\ qzStdin # <<>>
    /\ \E line \in ReadOutcomes :
          qzReader' = [qzReader EXCEPT ![question] = [state |-> "sending", line |-> <<line>>]]
    /\ qzStdin' = Tail(qzStdin)
    /\ UNCHANGED <<qzPc, qzQuestion, qzTimer, qzTyped, qzAnswers, qzScore, qzLines>>
    /\ UNCHANGED <<podVars, depVars, svcVars, evVars, logVars, renderVars, enrVars, dgVars,
                   statVars>>

\* part_008 191-199 and 205-212: the select receives from inputCh
SelectInput ==
    /\ qzPc = "select"
    /\ qzReader[qzQuestion].state = "sending"
    /\ qzReader' = [qzReader EXCEPT ![qzQuestion].state = "exited"]
    /\ Evaluate(qzQuestion, TrimSpace(qzReader[qzQuestion].line[1].chars), FALSE)
    /\ UNCHANGED <<qzQuestion, qzTimer, qzStdin, qzTyped, qzLines>>
    /\ UNCHANGED <<podVars, depVars, svcVars, evVars, logVars, renderVars, enrVars, dgVars,
                   statVars>>

\* part_008 200-203 and 205-212: the select receives from timeout
SelectTimeout ==
    /\ qzPc = "select"
    /\ qzTimer[qzQuestion] = "fired"
    /\ Evaluate(qzQuestion, <<>>, TRUE)
    /\ UNCHANGED <<qzQuestion, qzTimer, qzReader, qzStdin, qzTyped, qzLines>>
    /\ UNCHANGED <<podVars, depVars, svcVars, evVars, logVars, renderVars, enrVars, dgVars,
                   statVars>>

\* part_008 223-228: reader.ReadString returns in the main loop, which goes
\* on to the next question or leaves the loop
PressEnter ==
    /\ qzPc = "continue"
    /\ qzStdin # <<>>
    /\ qzStdin' = Tail(qzStdin)
    /\ IF qzQuestion < MaxQuestions
       THEN AskQuestion(qzQuestion + 1)
       ELSE /\ qzPc' = "done"
            /\ UNCHANGED <<qzQuestion, qzTimer, qzReader>>
    /\ UNCHANGED <<qzTyped, qzAnswers, qzScore, qzLines>>
    /\ UNCHANGED <<podVars, depVars, svcVars, evVars, logVars, renderVars, enrVars, dgVars,
                   statVars>>

InitQuiz ==
    /\ qzPc = "idle"
    /\ qzQuestion = 0
    /\ qzTimer = [q \in Questions |-> "off"]
    /\ qzReader = [q \in Questions |-> [state |-> "off", line |-> <<>>]]
    /\ qzStdin = <<>>
    /\ qzTyped = [q \in Questions |-> <<>>]
    /\ qzAnswers = <<>>
    /\ qzScore = 0
    /\ qzLines = 0

Init ==
    /\ InitPods /\ InitDeployments /\ InitServices /\ InitEvents /\ InitLogs
    /\ InitRender /\ InitEnrich /\ InitDiagnose /\ InitStats /\ InitQuiz

NextPods == GetUnhealthyPodsLegacy \/ GetUnhealthyPods

SpecPods == Init /\ [][NextPods]_vars

NextDeployments ==
    \/ GetUnhealthyDeployments
    \/ GetMisconfiguredDeploymentsReal
    \/ GetMisconfiguredDeployments

SpecDeployments == Init /\ [][NextDeployments]_vars

NextServices == GetServiceIssuesReal \/ GetServiceIssues

SpecServices == Init /\ [][NextServices]_vars

NextEvents == GetFailedEvents \/ GetFailedEventsReal

SpecEvents == Init /\ [][NextEvents]_vars

NextLogs == getPodLogs

SpecLogs == Init /\ [][NextLogs]_vars

NextRender ==
    \/ diagnoseNamespaceOutput
    \/ diagnoseCmdOutput
    \/ runReportOutput
    \/ reportCmdOutput

SpecRender == Init /\ [][NextRender]_vars

NextEnrich ==
    \/ GetUnhealthyPodsLegacyFull
    \/ GetUnhealthyDeploymentsFull
    \/ GetMisconfiguredDeploymentsFull
    \/ enrOp = "none" /\ GetServiceIssuesReal

SpecEnrich == Init /\ [][NextEnrich]_vars

NextDiagnose ==
    \/ runDiagnose
    \/ diagnoseCmdRun
    \/ reportCmdRun
    \/ FetchKind
    \/ AnalyzeIssue
    \/ PrintNamespace
    \/ NextNamespace
    \/ OutputDiagnose
    \/ OutputReport
    \/ Expire

SpecDiagnose == Init /\ [][NextDiagnose]_vars

\* A run is one sequential program: when each call it makes returns (kubectl
\* and the Amazon Q CLI exit, diagnoseCmd.Run and reportCmd.Run also bound
\* the kubectl calls by the timeout of their context), the step that is
\* enabled is eventually taken.
SpecDiagnoseFair == SpecDiagnose /\ WF_vars(NextDiagnose)

NextPodDetail == GetUnhealthyPodsLegacyDetail \/ GetUnhealthyPodsDetail

SpecPodDetail == Init /\ [][NextPodDetail]_vars

NextStats == AppendNamespace \/ CalculateStatsCall

SpecStats == Init /\ [][NextStats]_vars

NextQuiz ==
    \/ startGame
    \/ PlayerTypes
    \/ TimerFires
    \/ \E question \in Questions : ReaderReads(question)
    \/ SelectInput
    \/ SelectTimeout
    \/ PressEnter

SpecQuiz == Init /\ [][NextQuiz]_vars

PodClassified == podOp # "none" /\ ~podErr

\* C1: a pod whose phase is not Succeeded yields no Issue iff it is Running
\* with every container ready and restarted at most 5 times; Pending, Failed
\* and Unknown pods always yield an Issue.
C1_PodHealthyIff ==
    PodClassified =>
        \A i \in 1..Len(pods) :
            pods[i].phase # "Succeeded" =>
                ( (pods[i].name \notin Names(unhealthyPods))
                  <=> ( /\ pods[i].phase = "Running"
                        /\ \A j \in 1..Len(pods[i].containers) :
                              /\ pods[i].containers[j].ready
                              /\ pods[i].containers[j].restartCount <= 5 ) )

\* a Running pod whose containers are all ready is reported because one of
\* them restarted 6 times, next to a listed pod that is not reported
C1_Witness ==
    /\ PodClassified
    /\ \E i \in 1..Len(pods) :
          /\ pods[i].phase = "Running"
          /\ Len(pods[i].containers) = 2
          /\ \A j \in 1..2 : pods[i].containers[j].ready
          /\ pods[i].containers[1].restartCount = 5
          /\ pods[i].containers[2].restartCount = 6
          /\ pods[i].name \in Names(unhealthyPods)
    /\ Len(unhealthyPods) = Len(pods)

\* C2: a Succeeded pod never yields an Issue, whatever its containers are.
C2_SucceededNeverIssue ==
    PodClassified =>
        \A i \in 1..Len(pods) :
            pods[i].phase = "Succeeded" => pods[i].name \notin Names(unhealthyPods)

(***************************************************************************)
(* Deployments: the claims                                                 *)
(***************************************************************************)
DeploymentsClassified == depOp # "none" /\ ~depErr

\* C3: a deployment with spec.replicas > 0 yields no Issue iff replicas equals
\* readyReplicas, updatedReplicas and availableReplicas and every condition,
\* of any type, has status "True".
C3_DeploymentHealthyIff ==
    DeploymentsClassified =>
        \A i \in 1..Len(deployments) :
            LET d == deployments[i] IN
            d.replicas > 0 =>
                ( (d.name \notin Names(deploymentIssues))
                  <=> ( /\ d.replicas = d.readyReplicas
                        /\ d.replicas = d.updatedReplicas
                        /\ d.replicas = d.availableReplicas
                        /\ \A j \in 1..Len(d.conditions) :
                              d.conditions[j].status = "True" ) )

\* C4: a deployment with spec.replicas = 0 never yields an Issue, whatever its
\* status counts and conditions are.
C4_ZeroReplicasNeverIssue ==
    DeploymentsClassified =>
        \A i \in 1..Len(deployments) :
            deployments[i].replicas = 0 =>
                deployments[i].name \notin Names(deploymentIssues)

RealDeploymentsClassified ==
    depOp = "getRealMisconfiguredDeployments" /\ ~depErr

IssueOf(d) ==
    CHOOSE iss \in { deploymentIssues[k] : k \in 1..Len(deploymentIssues) } :
        iss.Name = d.name

Reported == { i \in 1..Len(deployments) : deployments[i].name \in Names(deploymentIssues) }

NonTrueAt(conds) == { j \in 1..Len(conds) : conds[j].status # "True" }
ReasonedAt(conds) == { j \in NonTrueAt(conds) : conds[j].reason # "" }
First(S) == CHOOSE j \in S : \A k \in S : j <= k

\* C5 as stated: the reason of an Issue is "InsufficientReadyReplicas" when
\* ready < desired, else "StalledRollout" when updated < desired, else the reason
\* of the first condition that is not "True"; a shortfall of ready replicas puts
\* the ready/desired counts in the message.
C5_ShortfallBeforeConditions ==
    RealDeploymentsClassified =>
        \A i \in Reported :
            LET d == deployments[i]
                iss == IssueOf(d)
            IN  IF d.readyReplicas < d.replicas
                THEN /\ iss.Reason = "InsufficientReadyReplicas"
                     /\ iss.Message.args = <<d.readyReplicas, d.replicas>>
                ELSE IF d.updatedReplicas < d.replicas
                     THEN iss.Reason = "StalledRollout"
                     ELSE /\ NonTrueAt(d.conditions) # {}
                          /\ iss.Reason = d.conditions[First(NonTrueAt(d.conditions))].reason

\* C5 as amended: the conditions decide first.  The reason and message are those
\* of the first condition that is not "True" and has a reason; without one the
\* reason is "InsufficientReadyReplicas" (message with the ready/desired
\* counts) when ready < desired, else "StalledRollout" (message with the
\* updated/desired counts) when updated < desired, else empty.
C5_ConditionsBeforeShortfall ==
    RealDeploymentsClassified =>
        \A i \in Reported :
            LET d == deployments[i]
                iss == IssueOf(d)
                J == ReasonedAt(d.conditions)
            IN  IF J # {}
                THEN /\ iss.Reason = d.conditions[First(J)].reason
                     /\ iss.Message = d.conditions[First(J)].message
                ELSE IF d.readyReplicas < d.replicas
                     THEN /\ iss.Reason = "InsufficientReadyReplicas"
                          /\ iss.Message.fmt = "Deployment has %d/%d ready replicas"
                          /\ iss.Message.args = <<d.readyReplicas, d.replicas>>
                     ELSE IF d.updatedReplicas < d.replicas
                          THEN /\ iss.Reason = "StalledRollout"
                               /\ iss.Message.args = <<d.updatedReplicas, d.replicas>>
                          ELSE iss.Reason = ""

\* a deployment short of ready replicas whose second condition is the first one
\* that is not "True" and has a reason: the Issue carries that condition's reason
C5_Witness ==
    /\ RealDeploymentsClassified
    /\ \E i \in Reported :
          LET d == deployments[i] IN
          /\ d.readyReplicas < d.replicas
          /\ Len(d.conditions) = 2
          /\ d.conditions[1].status # "True" /\ d.conditions[1].reason = ""
          /\ d.conditions[2].status = "False"
          /\ IssueOf(d).Reason = d.conditions[2].reason

(***************************************************************************)
(* Services: the claims                                                    *)
(***************************************************************************)
ServicesClassified == svcOp # "none" /\ ~svcErr

NoAddress(answer) ==
    \A j \in 1..Len(answer.subsets) : answer.subsets[j] = 0

WithSelector == { i \in 1..Len(services) : DOMAIN services[i].selector # {} }
WithoutSelector == { i \in 1..Len(services) : DOMAIN services[i].selector = {} }

\* C6 as stated: a service with a selector yields an Issue iff its Endpoints
\* object has zero addresses over all subsets; nothing else (service type,
\* cluster IP, outcome of the endpoints lookup) produces one.
C6_IssueIffNoAddress ==
    ServicesClassified =>
        \A i \in WithSelector :
            (services[i].name \in Names(serviceIssues))
            <=> (services[i].endpoints.kind = "ok" /\ NoAddress(services[i].endpoints))

\* C6 as amended: getRealServiceIssues reports a service with a selector iff
\* the endpoints lookup fails, its output does not parse, or the Endpoints
\* object has zero addresses over all subsets; GetServiceIssues of the
\* client-go variant does the same except that it never reports a service
\* whose cluster IP is "None".  The service type plays no part.
C6_IssueIffNoAddressOrLookupFailed ==
    ServicesClassified =>
        \A i \in WithSelector :
            LET svc == services[i]
                unreachable == svc.endpoints.kind # "ok" \/ NoAddress(svc.endpoints)
            IN  (svc.name \in Names(serviceIssues))
                <=> IF svcOp = "GetServiceIssues"
                    THEN svc.clusterIP # "None" /\ unreachable
                    ELSE unreachable

\* a service with a selector whose endpoints lookup failed is reported, with the
\* issue text of the failed lookup
C6_Witness ==
    /\ svcOp = "getRealServiceIssues" /\ ~svcErr
    /\ \E i \in WithSelector :
          /\ services[i].endpoints.kind = "error"
          /\ \E k \in 1..Len(serviceIssues) :
                /\ serviceIssues[k].Name = services[i].name
                /\ serviceIssues[k].Issue = "Cannot retrieve endpoints"

\* C7: a service without selector yields no Issue, no endpoints lookup is made
\* for it, and it adds to no counter of the report statistics: the only counter
\* fed by services counts the reported services, all of which have a selector.
C7_SelectorlessSkipped ==
    ServicesClassified =>
        /\ \A i \in WithoutSelector :
              /\ services[i].name \notin Names(serviceIssues)
              /\ \A k \in 1..Len(endpointLookups) : endpointLookups[k] # services[i].name
        /\ clusterStats.ServiceIssueCount =
              Cardinality({ i \in WithSelector : services[i].name \in Names(serviceIssues) })
        /\ clusterStats.TotalPods = 0
        /\ clusterStats.TotalDeployments = 0
        /\ clusterStats.FailedEventCount = 0

\* two services are listed; the one without selector has no address and is not
\* reported, looked up or counted, the other one is
C7_Witness ==
    /\ ServicesClassified
    /\ Len(services) = 2
    /\ \E i \in WithoutSelector :
          /\ services[i].endpoints.kind = "ok"
          /\ NoAddress(services[i].endpoints)
          /\ services[i].clusterIP # "None"
    /\ Len(endpointLookups) >= 1
    /\ clusterStats.ServiceIssueCount = 1

(***************************************************************************)
(* Events: the claims                                                      *)
(***************************************************************************)
EventsCorrelated == evOp # "none" /\ ~evErr

Retained(e) == e.name \in Names(failedEvents)

WellFormed(e) == ParseRFC3339(e.lastTimestamp).ok
OlderThanAnHour(e) ==
    WellFormed(e) /\ evNow - ParseRFC3339(e.lastTimestamp).unix > 3600

MentionsFailure(e) ==
    Contains(e.reason, <<"E","r","r","o","r">>) \/ Contains(e.reason, <<"F","a","i","l","e","d">>)

\* C8: no returned event has a well-formed lastTimestamp more than one hour
\* before the evaluation time, and a Warning event whose lastTimestamp does
\* not parse is not dropped.
C8_RecentOrUnparsable ==
    EventsCorrelated =>
        \A i \in 1..Len(events) :
            /\ Retained(events[i]) => ~OlderThanAnHour(events[i])
            /\ (events[i].type = "Warning" /\ ~WellFormed(events[i])) => Retained(events[i])

\* C9: an event is retained iff its type is "Warning", or the pass is in the
\* all-events mode and its reason contains "Error" or "Failed"; after a
\* successful Warning-only fetch no other event is retained.  (GetFailedEvents
\* of part_000 has no Warning-only fetch and applies its recency filter after
\* the type filter.)
C9_WarningOrFailureReason ==
    EventsCorrelated =>
        \A i \in 1..Len(events) :
            LET e == events[i] IN
            IF evOp = "getRealFailedEvents"
            THEN Retained(e) <=>
                    \/ e.type = "Warning"
                    \/ evMode = "all-events" /\ MentionsFailure(e)
            ELSE Retained(e) <=> (e.type = "Warning" /\ ~OlderThanAnHour(e))

(***************************************************************************)
(* Logs: the claims                                                        *)
(***************************************************************************)
LogsFetched == logOp = "getPodLogs" /\ ~logErr

\* The lines of a text: the pieces between the newlines, where a newline at
\* the very end of the text ends the last line and starts no other.
LinesOf(text) ==
    LET pieces == Split(text) IN
    IF text # <<>> /\ text[Len(text)] = Newline
    THEN SubSeq(pieces, 1, Len(pieces) - 1)
    ELSE pieces

MarkerLine == << [text |-> "...[logs truncated]...", n |-> 0, size |-> 22] >>

\* C10: a fetched log of more than 2000 characters and more than 20 lines is
\* returned as its first 5 lines, the line "...[logs truncated]..." and its
\* last 15 lines, 21 lines in all; every other log is returned unchanged.
C10_TruncatesHeadAndTail ==
    LogsFetched =>
        LET lines == LinesOf(logFetched)
            count == Len(lines)
        IN  IF ByteLen(logFetched) > 2000 /\ count > 20
            THEN /\ Len(LinesOf(logReturned)) = 21
                 /\ LinesOf(logReturned) =
                        SubSeq(lines, 1, 5) \o <<MarkerLine>> \o SubSeq(lines, count - 14, count)
            ELSE logReturned = logFetched

(***************************************************************************)
(* Claims about the renderers                                              *)
(***************************************************************************)
IssuesOf(j, category) == renderReport[j][CategoryField[category]]

NameOfNamespace(j) ==
    IF "Namespace" \in DOMAIN renderReport[j] THEN renderReport[j].Namespace
    ELSE renderReport[j].Name

\* the items and the "... and K more" lines of a category, in output order
Listed(j, category) ==
    SelectSeq(rendered, LAMBDA l : /\ l.ns = NameOfNamespace(j)
                                   /\ l.category = category
                                   /\ l.kind \in {"item", "more"})

\* listed is the first cap issues in order, then "... and K more" iff there
\* are more than cap
CappedPrefix(listed, issues, cap) ==
    LET n == Len(issues)
        shown == Min(n, cap) IN
    /\ Len(listed) = shown + (IF n > cap THEN 1 ELSE 0)
    /\ \A i \in 1..shown : listed[i].kind = "item" /\ listed[i].name = issues[i].Name
    /\ n > cap => listed[shown + 1].kind = "more" /\ listed[shown + 1].n = n - cap

\* a document or webhook renderer produced the output
DocumentRendered ==
    /\ renderOp \in {"diagnoseCmd", "runReport", "reportCmd"}
    /\ outputFormat = "markdown"
    /\ rendered # <<>> /\ rendered[1].kind = "title"

WebhookRendered ==
    /\ renderOp \in {"diagnoseCmd", "reportCmd"}
    /\ outputFormat = "slack"
    /\ rendered # <<>> /\ rendered[1].kind = "title"

\* 5 for a top-level list, 3 for the lists nested in a namespace summary
CapOfRun == IF renderOp = "reportCmd" THEN NestedCap ELSE TopCap

\* C11: a document or webhook renderer under cap N (5 top-level, 3 nested)
\* given n issues of a category lists exactly the first min(n, N) of them in
\* order, followed, iff n > N, by one line "... and K more" with K = n - N.
C11_CappedListing ==
    (DocumentRendered \/ WebhookRendered) =>
        \A j \in 1..Len(renderReport) : \A category \in Kinds :
            CappedPrefix(Listed(j, category), IssuesOf(j, category), CapOfRun)

\* the same for the webhook renderers alone and the categories they list
C11_WebhookSections ==
    WebhookRendered =>
        \A j \in 1..Len(renderReport) :
            \A category \in (IF renderOp = "reportCmd"
                             THEN {"pods", "deployments", "services"}
                             ELSE {"pods", "deployments"}) :
                CappedPrefix(Listed(j, category), IssuesOf(j, category), CapOfRun)

C11_DocumentEightPods ==
    /\ DocumentRendered /\ renderOp = "diagnoseCmd"
    /\ Len(IssuesOf(1, "pods")) = 8

AllListsEmpty ==
    \A j \in 1..Len(renderReport) : \A category \in Kinds : IssuesOf(j, category) = <<>>

LinesOfKind(kind) == SelectSeq(rendered, LAMBDA l : l.kind = kind)

\* a namespace report went through the console, document or webhook output
\* of a command
NamespaceReportRendered ==
    /\ renderOp \in {"diagnoseNamespace", "diagnoseCmd", "runReport"}
    /\ outputFormat \in {"terminal", "markdown", "slack"}
    /\ LinesOfKind("error") = <<>>

\* C12: when every per-kind issue list of the report is empty the output
\* holds exactly one "no issues found" message and no category section;
\* when some list is not empty the message is not emitted.
C12_NoIssuesMessage ==
    NamespaceReportRendered =>
        IF AllListsEmpty
        THEN Len(LinesOfKind("success")) = 1 /\ LinesOfKind("section") = <<>>
        ELSE LinesOfKind("success") = <<>>

\* the same for the two diagnose commands alone
C12_DiagnoseCommands ==
    renderOp \in {"diagnoseNamespace", "diagnoseCmd"} => C12_NoIssuesMessage

C12_EmptyDocument ==
    /\ renderOp = "runReport" /\ AllListsEmpty
    /\ LinesOfKind("success") = <<>> /\ LinesOfKind("title") # <<>>

\* a renderer produced the output
RendererRan == renderOp # "none" /\ rendered # <<>> /\ rendered[1].kind = "title"

\* the names of the items a renderer emitted for a category, in output order
EmittedNames(j, category) ==
    LET items == SelectSeq(rendered, LAMBDA l : /\ l.ns = NameOfNamespace(j)
                                                /\ l.category = category
                                                /\ l.kind = "item")
    IN [i \in 1..Len(items) |-> items[i].name]

FetchedOf(j, category) == renderSnapshot[j][category]

\* the fetched records that were classified unhealthy, in fetch order
UnhealthyNames(j, category) ==
    LET kept == SelectSeq(FetchedOf(j, category),
                          LAMBDA r : r.name \in Names(IssuesOf(j, category)))
    IN [i \in 1..Len(kept) |-> kept[i].name]

\* the categories the renderer that ran has a section of items for
SectionsOfRun ==
    CASE renderOp = "diagnoseNamespace" -> {"pods", "deployments"}
      [] renderOp = "reportCmd" -> {"pods", "deployments", "services"}
      [] renderOp = "diagnoseCmd" /\ outputFormat = "slack" -> {"pods", "deployments"}
      [] OTHER -> Kinds

SlackPosted == renderOp # "none" /\ slackAnswer.kind # "none"

\* the report as the command computed it from what it fetched
ComputedReport ==
    IF renderOp = "reportCmd"
    THEN ClusterReportOf(renderSnapshot).Namespaces
    ELSE <<RealResults(NamespaceNames[1], renderSnapshot[1])>>

EnrichedClassified == enrOp # "none" /\ ~enrErr

\* C13: classifying the same records at any other evaluation time, with the
\* same answers of the lookups, yields equal issues: no field of a PodIssue
\* or DeploymentIssue (Age included) depends on the clock.
C13_SameAtAnyTime ==
    EnrichedClassified =>
        \A t \in EvaluationTimes : ClassifyFull(enrOp, enrFetched, t) = enrIssues

\* the issues without their Age
WithoutAge(issues) ==
    [i \in 1..Len(issues) |-> [f \in DOMAIN issues[i] \ {"Age"} |-> issues[i][f]]]

\* the same for every field but Age
C13_SameButAge ==
    EnrichedClassified =>
        \A t \in EvaluationTimes :
            WithoutAge(ClassifyFull(enrOp, enrFetched, t)) = WithoutAge(enrIssues)

\* a cap on the attached events that does not follow what the lookup returns
EventCap == MaxUpstreamEvents - 1

\* a log of more than 2000 bytes is cut to 21 pieces of strings.Split; one of
\* at most 2000 bytes has at most 2001 of them
LogIsBounded(text) ==
    \/ Len(Split(text)) <= HeadLines + 1 + TailKept
    \/ ByteLen(text) <= TruncateChars

\* C14: in every issue the number of attached events is at most a fixed
\* bound and every attached log is bounded in lines, whatever the lookups
\* return.
C14_BoundedEnrichment ==
    EnrichedClassified =>
        \A i \in 1..Len(enrIssues) :
            /\ Len(enrIssues[i].Events) <= EventCap
            /\ \A k \in 1..Len(Field(enrIssues[i], "Logs", <<>>)) :
                  LogIsBounded(enrIssues[i].Logs[k].text)

\* the same for the logs alone
C14_BoundedLogs ==
    EnrichedClassified =>
        \A i \in 1..Len(enrIssues) :
            \A k \in 1..Len(Field(enrIssues[i], "Logs", <<>>)) :
                LogIsBounded(enrIssues[i].Logs[k].text)

\* the records a classifier passes over without an issue
SkippedBy(op, r) ==
    CASE op = "GetUnhealthyPodsLegacy" -> LegacySkipsPod(r)
      [] op = "GetUnhealthyDeployments" -> LegacySkipsDeployment(r)
      [] op = "GetMisconfiguredDeployments" -> isDeploymentHealthy(r)

\* C16: a failing enrichment lookup (the events of a pod or deployment, the
\* logs of a container, the pods matching a service) never removes the issue
\* and never makes the classifier return an error: the issue is produced with
\* no events, an empty log text, or the message "Service has no endpoint pods".
C16_LookupFailureKeepsIssue ==
    /\ EnrichedClassified =>
         LET kept == SelectSeq(enrFetched, LAMBDA r : ~SkippedBy(enrOp, r)) IN
         /\ Len(enrIssues) = Len(kept)
         /\ \A i \in 1..Len(kept) :
               /\ enrIssues[i].Name = kept[i].name
               /\ kept[i].eventsAnswer.kind # "ok" => enrIssues[i].Events = <<>>
               /\ Field(kept[i], "logAnswer", [kind |-> "ok"]).kind = "error" =>
                     \A k \in 1..Len(enrIssues[i].Logs) : enrIssues[i].Logs[k].text = <<>>
    /\ enrOp # "none" /\ enrErr => enrFetched = <<>>
    /\ svcOp = "getRealServiceIssues" /\ ~svcErr =>
         \A j \in 1..Len(services) :
            ( /\ ~HasNoSelector(services[j])
              /\ services[j].endpoints.kind = "ok"
              /\ ~hasEndpoints(services[j].endpoints.subsets)
              /\ services[j].podsOutput = "" ) =>
                \E i \in 1..Len(serviceIssues) :
                    /\ serviceIssues[i].Name = services[j].name
                    /\ serviceIssues[i].Message = Text("Service has no endpoint pods")

\* a pod with an unready container whose events lookup and log fetch both
\* fail is reported, with no events and an empty log
C16_Witness ==
    /\ enrOp = "GetUnhealthyPodsLegacy" /\ ~enrErr
    /\ Len(enrFetched) = 1 /\ Len(enrIssues) = 1
    /\ enrFetched[1].eventsAnswer.kind = "error"
    /\ enrFetched[1].logAnswer.kind = "error"
    /\ Len(enrIssues[1].Logs) = 1
    /\ enrIssues[1].Logs[1].text = <<>>
    /\ enrIssues[1].Events = <<>>


\* ---- C15 ---------------------------------------------------------------
\* the run has namespaces to go through
DiagnoseRuns == dgPc # "idle" /\ dgNamespaces # <<>>

\* the fetches the run has made in the namespace it is in
CurrentAttempts ==
    SelectSeq(dgAttempts, LAMBDA a : a.ns = dgNamespaces[dgNs])

ConsoleLines == { dgConsole[i] : i \in 1..Len(dgConsole) }

FetchErrorLine(a) == Line("error", a.ns, a.kind, "Error checking: %s", "", 0)

FoundLine(a, n) == Line("found", a.ns, a.kind, "Found %d", "", n)

\* C15: in a diagnostic pass a fetch that fails for one kind in one namespace
\* is reported as an error for that kind and leaves the issue list of that
\* kind empty; every kind of every namespace is still fetched, in the order
\* of the command, and the lists of the kinds that were fetched are kept.
C15_FetchFailureSkipsOnlyThatKind ==
    DiagnoseRuns =>
        LET nk == Len(dgKinds) IN
        /\ \A k \in 1..Len(dgAttempts) :
              /\ dgAttempts[k].ns = dgNamespaces[((k - 1) \div nk) + 1]
              /\ dgAttempts[k].kind = dgKinds[((k - 1) % nk) + 1]
        /\ Len(dgAttempts) = (dgNs - 1) * nk + (IF dgPc = "fetch" THEN dgKind - 1 ELSE nk)
        /\ dgPc = "done" => dgNs = Len(dgNamespaces)
        /\ \A k \in 1..Len(CurrentAttempts) :
              LET a == CurrentAttempts[k]
                  list == dgResults[CategoryField[a.kind]] IN
              IF a.ok
              THEN FoundLine(a, Len(list)) \in ConsoleLines
              ELSE FetchErrorLine(a) \in ConsoleLines /\ list = <<>>

\* the first fetch of the first namespace failed, a later fetch of that
\* namespace found issues, and the run is in its second namespace with a
\* failed fetch followed by one that found issues
C15_Witness ==
    /\ DiagnoseRuns
    /\ dgNs = 2
    /\ Len(dgAttempts) >= Len(dgKinds) + 2
    /\ ~dgAttempts[1].ok
    /\ \E k \in 2..Len(dgKinds) : dgAttempts[k].ok
    /\ Len(CurrentAttempts) >= 2
    /\ ~CurrentAttempts[1].ok
    /\ CurrentAttempts[2].ok
    /\ dgResults[CategoryField[CurrentAttempts[2].kind]] # <<>>

\* ---- C17 ---------------------------------------------------------------
\* the call of the explanation service for an issue gave a text
CallOk(category, name, call) ==
    \E k \in 1..Len(dgCalls) :
        dgCalls[k] = [category |-> category, name |-> name, call |-> call, answer |-> "ok"]

\* the explanation service was called for an issue and gave no text
CallFailed(category, name, call) ==
    \E k \in 1..Len(dgCalls) :
        /\ dgCalls[k].category = category /\ dgCalls[k].name = name
        /\ dgCalls[k].call = call /\ dgCalls[k].answer # "ok"

\* what a line shows, whatever its layout
Shown(l) == [kind |-> l.kind, name |-> l.name, n |-> l.n]

\* the issue lines of a category with their annotations, as the outcomes of
\* the calls ask for them
RECURSIVE ExpectedIssueLines(_, _, _)
ExpectedIssueLines(category, issues, i) ==
    IF i > Len(issues) THEN <<>>
    ELSE <<[kind |-> "item", name |-> issues[i].Name, n |-> i]>>
         \o (IF CallOk(category, issues[i].Name, "analysis")
             THEN <<[kind |-> "analysis", name |-> AnalysisText, n |-> 0]>> ELSE <<>>)
         \o (IF CallOk(category, issues[i].Name, "fix")
             THEN <<[kind |-> "fix", name |-> FixText, n |-> 0]>> ELSE <<>>)
         \o ExpectedIssueLines(category, issues, i + 1)

\* the issue lines of a category on the console, with their annotations
ShownIssueLines(category) ==
    LET lines == SelectSeq(dgConsole, LAMBDA l : /\ l.category = category
                                                  /\ l.kind \in {"item", "analysis", "fix"})
    IN [k \in 1..Len(lines) |-> Shown(lines[k])]

\* the results of the current namespace have been printed
NamespacePrinted ==
    /\ DiagnoseRuns
    /\ \/ dgCmd = "runDiagnose" /\ dgPc \in {"next", "done"}
       \/ dgCmd = "diagnoseCmd" /\ dgPc = "done" /\ ~NamespaceHasNoIssues(dgResults)

\* the kinds a command prints the issues of
PrintedKinds == IF dgCmd = "runDiagnose" THEN {"pods", "deployments"} ELSE Kinds

AnalysisCalls == SelectSeq(dgCalls, LAMBDA c : c.call = "analysis")

\* C17: whatever the calls of the explanation service give (a text, an
\* error, or the service is absent), every issue is printed; an issue whose
\* analysis or fix call failed has that field empty and is printed without
\* it; and the issues after a failed call are still submitted, in order.
C17_ExplanationFailureIsNotFatal ==
    (DiagnoseRuns /\ dgCmd \in {"runDiagnose", "diagnoseCmd"}) =>
        LET work == WorkItems(dgCmd, dgResults, dgMaxItems) IN
        /\ Len(AnalysisCalls) =
              (IF dgPc = "fetch" THEN 0
               ELSE IF dgPc = "analyze" THEN dgCursor - 1 ELSE Len(work))
        /\ \A k \in 1..Len(AnalysisCalls) :
              /\ AnalysisCalls[k].category = work[k].category
              /\ AnalysisCalls[k].name =
                    dgResults[CategoryField[work[k].category]][work[k].i].Name
        /\ \A category \in {"pods", "deployments"} :
              LET issues == dgResults[CategoryField[category]] IN
              \A i \in 1..Len(issues) :
                 /\ CallFailed(category, issues[i].Name, "analysis")
                       => Field(issues[i], "Analysis", "") = ""
                 /\ CallFailed(category, issues[i].Name, "fix")
                       => Field(issues[i], "Fix", "") = ""
        /\ NamespacePrinted =>
              \A category \in PrintedKinds :
                 ShownIssueLines(category) =
                    ExpectedIssueLines(category, dgResults[CategoryField[category]], 1)

\* a printed namespace with two pod issues: the analysis of the first failed,
\* the second was analysed and is printed with its analysis
C17_Witness ==
    /\ NamespacePrinted
    /\ Len(dgResults.UnhealthyPods) = 2
    /\ CallFailed("pods", dgResults.UnhealthyPods[1].Name, "analysis")
    /\ CallOk("pods", dgResults.UnhealthyPods[2].Name, "analysis")
    /\ ShownIssueLines("pods") =
          << [kind |-> "item", name |-> dgResults.UnhealthyPods[1].Name, n |-> 1],
             [kind |-> "item", name |-> dgResults.UnhealthyPods[2].Name, n |-> 2],
             [kind |-> "analysis", name |-> AnalysisText, n |-> 0] >>

\* ---- C19 ---------------------------------------------------------------
\* the run of a command came to its end
DiagnoseDone == dgPc = "done"

\* a diagnostic command is through with the namespace it is in
NamespaceFinished ==
    /\ DiagnoseRuns
    /\ \/ dgCmd = "runDiagnose" /\ dgPc = "next"
       \/ dgCmd = "diagnoseCmd" /\ dgPc = "done"

\* the names of the issues of a kind on the console, in order
ShownIssueNames(kind) ==
    LET lines == SelectSeq(dgConsole, LAMBDA l : l.category = kind /\ l.kind = "item")
    IN [k \in 1..Len(lines) |-> lines[k].name]

IssueNames(kind) ==
    LET issues == dgResults[CategoryField[kind]]
    IN [k \in 1..Len(issues) |-> issues[k].Name]

\* the fetch of a kind in the current namespace is on the console: its
\* issues if it succeeded, an error that names the kind if it failed
FetchIsShown(a) ==
    IF a.ok THEN ShownIssueNames(a.kind) = IssueNames(a.kind)
    ELSE FetchErrorLine(a) \in ConsoleLines

EverythingShown == \A k \in 1..Len(CurrentAttempts) : FetchIsShown(CurrentAttempts[k])

\* C19: under every combination of fetch and explanation-service outcomes a
\* diagnostic run eventually completes, and when it is through with a
\* namespace it has printed the issue list of every kind it could fetch and
\* an error naming every kind it could not fetch.
C19_CompletesHavingShownEverything ==
    /\ <>DiagnoseDone
    /\ [](NamespaceFinished => EverythingShown)

\* C19, the part on termination: every run comes to its end
C19_Completes == <>DiagnoseDone

\* C19, the part on the output without the events of diagnoseNamespace: the
\* issue lists of the other fetched kinds and the errors of the failed kinds
\* are on the console
C19_ShownButLegacyEvents ==
    NamespaceFinished =>
        \A k \in 1..Len(CurrentAttempts) :
            \/ dgCmd = "runDiagnose" /\ CurrentAttempts[k].kind = "events" /\ CurrentAttempts[k].ok
            \/ FetchIsShown(CurrentAttempts[k])

\* diagnoseNamespace is through with a namespace whose events were fetched
\* and held a failed one, and no event is on the console
C19_LegacyEventsNotShown ==
    /\ NamespaceFinished
    /\ dgCmd = "runDiagnose"
    /\ \E k \in 1..Len(CurrentAttempts) :
          CurrentAttempts[k].kind = "events" /\ CurrentAttempts[k].ok
    /\ dgResults.FailedEvents # <<>>
    /\ ShownIssueNames("events") = <<>>

\* ---- C21 ---------------------------------------------------------------
\* the sum, over the namespaces of the report, of the length of one list
RECURSIVE SumOfLengths(_, _)
SumOfLengths(namespaces, field) ==
    IF namespaces = <<>> THEN 0
    ELSE Len(Head(namespaces)[field]) + SumOfLengths(Tail(namespaces), field)

\* C21: after CalculateStats, for pods and for deployments the total is the
\* healthy count plus the unhealthy count, and every count is the sum over
\* the namespaces of the length of its source list; this holds for every
\* call, also for a call that follows an earlier call and appended
\* namespaces: nothing of the previous statistics is carried over.
C21_StatsAreSumsOfLists ==
    stOp = "CalculateStats" =>
        /\ stStats.NamespaceCount = Len(stNamespaces)
        /\ stStats.TotalPods = stStats.HealthyPods + stStats.UnhealthyPods
        /\ stStats.TotalDeployments =
              stStats.HealthyDeployments + stStats.MisconfiguredDeployments
        /\ stStats.HealthyPods = SumOfLengths(stNamespaces, "HealthyPods")
        /\ stStats.UnhealthyPods = SumOfLengths(stNamespaces, "UnhealthyPods")
        /\ stStats.HealthyDeployments = SumOfLengths(stNamespaces, "HealthyDeployments")
        /\ stStats.MisconfiguredDeployments =
              SumOfLengths(stNamespaces, "MisconfiguredDeployments")
        /\ stStats.FailedEventCount = SumOfLengths(stNamespaces, "FailedEvents")
        /\ stStats.ServiceIssueCount = SumOfLengths(stNamespaces, "ServiceIssues")

\* the second call, made after a first call that counted pods and after a
\* further namespace with pods was appended
C21_Witness ==
    /\ stOp = "CalculateStats"
    /\ stCalls = 2
    /\ Len(stNamespaces) = 2
    /\ Len(stNamespaces[1].UnhealthyPods) > 0
    /\ Len(stNamespaces[2].HealthyPods) > 0
    /\ Len(stNamespaces[2].MisconfiguredDeployments) > 0
    /\ stStats.TotalPods > stStats.UnhealthyPods

\* ---- C22 ---------------------------------------------------------------
\* the fetches of the first namespace are over
FetchesOver == DiagnoseRuns /\ (dgNs > 1 \/ dgPc # "fetch")

\* the kinds fetched in the first namespace
FetchedKinds ==
    { dgAttempts[k].kind : k \in { j \in 1..Len(dgAttempts) :
                                      dgAttempts[j].ns = dgNamespaces[1] } }

\* the kinds with a section or an item on the console
RenderedKinds ==
    { dgConsole[k].category : k \in { j \in 1..Len(dgConsole) :
                                         dgConsole[j].kind \in {"section", "item"} } }

NoKindFlag == dgArgs = <<>>
PodsOnlyFlag == dgArgs = <<Flag("pods-only", TRUE)>>

\* C22: the kinds diagnose checks follow the documented flags: with no kind
\* flag pods, events, deployments and services are all fetched; with
\* --pods-only pods are fetched and no other kind is fetched or rendered.
C22_KindsFollowFlags ==
    (FetchesOver /\ dgCmd \in {"runDiagnose", "diagnoseCmd"}) =>
        /\ NoKindFlag => FetchedKinds = Kinds
        /\ PodsOnlyFlag => FetchedKinds = {"pods"} /\ RenderedKinds \subseteq {"pods"}

\* C22 for runDiagnose alone, services left aside: without a kind flag it
\* fetches pods, deployments and events, with --pods-only only pods
C22_LegacyKindsFollowFlags ==
    (FetchesOver /\ dgCmd = "runDiagnose") =>
        /\ NoKindFlag => FetchedKinds = {"pods", "deployments", "events"}
        /\ PodsOnlyFlag => FetchedKinds = {"pods"} /\ RenderedKinds \subseteq {"pods"}

\* diagnoseCmd.Run without a kind flag has fetched everything but the pods
C22_DefaultSkipsPods ==
    /\ FetchesOver /\ dgCmd = "diagnoseCmd" /\ NoKindFlag
    /\ FetchedKinds = {"events", "deployments", "services"}

\* diagnoseCmd.Run with --pods-only has fetched all four kinds
C22_PodsOnlyFetchesAll ==
    /\ FetchesOver /\ dgCmd = "diagnoseCmd" /\ PodsOnlyFlag
    /\ FetchedKinds = Kinds

\* ---- C23 ---------------------------------------------------------------
\* a pod classifier ran on a pod with its detail and returned an issue
DetailIssued ==
    /\ podOp # "none" /\ Len(pods) = 1 /\ "conditions" \in DOMAIN pods[1]
    /\ Len(unhealthyPods) = 1

MessageParts(message) == { message[k] : k \in 1..Len(message) }

\* the sub-issue of a container is derived from its record as specified
SubIssueAsSpecified(c, ci) ==
    CASE ~c.ready /\ c.waiting.present ->
            /\ ci.Status = "Waiting"
            /\ ci.Reason = c.waiting.reason /\ ci.Message = c.waiting.message
      [] ~c.ready /\ ~c.waiting.present /\ c.terminated.present ->
            /\ ci.Status = "Terminated"
            /\ ci.Reason = c.terminated.reason /\ ci.Message = c.terminated.message
            /\ ci.ExitCode = c.terminated.exitCode
      [] ~c.ready /\ ~c.waiting.present /\ ~c.terminated.present ->
            ci.Status = "Not Ready" /\ ci.Reason = "" /\ ci.Message = NoText
      [] c.ready /\ c.restartCount > RestartThreshold ->
            /\ ci.Status = "Running" /\ ci.Reason = "HighRestartCount"
            /\ \E part \in MessageParts(ci.Message) : part.count = c.restartCount
            /\ c.lastTerminated.present =>
                  \E part \in MessageParts(ci.Message) :
                     /\ part.reason = c.lastTerminated.reason
                     /\ part.code = c.lastTerminated.exitCode
      [] OTHER -> TRUE

\* C23: every container of an unhealthy pod gets its sub-issue by the rule:
\* not ready and waiting -> "Waiting" with the waiting reason and message;
\* not ready, not waiting, terminated -> "Terminated" with reason, message
\* and exit code; not ready with neither -> "Not Ready" without detail;
\* ready with more than 5 restarts -> "Running", "HighRestartCount" and a
\* message with the restart count and the last termination, if there is one.
C23_SubIssuesAsSpecified ==
    DetailIssued =>
        /\ Len(unhealthyPods[1].Containers) = Len(pods[1].containers)
        /\ \A i \in 1..Len(pods[1].containers) :
              SubIssueAsSpecified(pods[1].containers[i], unhealthyPods[1].Containers[i])

\* C23 for GetUnhealthyPodsLegacy alone, on states that carry a reason
C23_LegacySubIssues ==
    (DetailIssued /\ podOp = "GetUnhealthyPodsLegacy") =>
        \A i \in 1..Len(pods[1].containers) :
            LET c == pods[1].containers[i] IN
            (c.waiting.present => c.waiting.reason # "")
               => SubIssueAsSpecified(c, unhealthyPods[1].Containers[i])

\* scenario A under getRealUnhealthyPods: a Running pod whose only container
\* is not ready and waits in CrashLoopBackOff gets the container status
\* "Not Ready"
C23_ScenarioANotReady ==
    /\ DetailIssued /\ podOp = "GetUnhealthyPods"
    /\ pods[1].phase = "Running" /\ Len(pods[1].containers) = 1
    /\ ~pods[1].containers[1].ready
    /\ pods[1].containers[1].waiting.reason = "CrashLoopBackOff"
    /\ unhealthyPods[1].Status = "Running"
    /\ unhealthyPods[1].Containers[1].Status = "Not Ready"
    /\ unhealthyPods[1].Containers[1].Reason = "CrashLoopBackOff"

\* ---- C24 ---------------------------------------------------------------
\* the conditions of a pod whose status is not "True", in listed order
FailingConditions(pod) == SelectSeq(pod.conditions, LAMBDA cond : cond.status # "True")

\* C24 as stated: the reason and message of a pod issue are those of the
\* first pod condition, in listed order, whose status is not "True", and both
\* are empty when the pod has no such condition.
C24_ReasonFromFirstCondition ==
    DetailIssued =>
        LET failing == FailingConditions(pods[1]) IN
        IF failing = <<>>
        THEN unhealthyPods[1].Reason = "" /\ unhealthyPods[1].Message = NoText
        ELSE /\ unhealthyPods[1].Reason = failing[1].reason
             /\ unhealthyPods[1].Message = failing[1].message

\* C24 as the classifiers behave: the pod conditions are never consulted;
\* GetUnhealthyPodsLegacy copies the reason and message of the pod status,
\* getRealUnhealthyPods leaves both empty.
C24_ReasonFromPodStatus ==
    DetailIssued =>
        IF podOp = "GetUnhealthyPodsLegacy"
        THEN /\ unhealthyPods[1].Reason = pods[1].statusReason
             /\ unhealthyPods[1].Message = pods[1].statusMessage
        ELSE unhealthyPods[1].Reason = "" /\ unhealthyPods[1].Message = NoText

\* an evicted pod that lists a failing condition: the issue carries the
\* reason of the pod status, not that of the condition
C24_Witness ==
    /\ DetailIssued /\ podOp = "GetUnhealthyPodsLegacy"
    /\ FailingConditions(pods[1]) # <<>>
    /\ FailingConditions(pods[1])[1].reason = "Unschedulable"
    /\ pods[1].statusReason = "Evicted"
    /\ unhealthyPods[1].Reason = "Evicted"

\* ---- C25 ---------------------------------------------------------------
\* the results a fetch was stored in: the namespace report of reportCmd.Run,
\* the results of the one namespace of diagnoseCmd.Run
StoredResults(a) ==
    IF dgCmd = "reportCmd"
    THEN dgReport[CHOOSE j \in 1..Len(dgReport) : dgReport[j].Name = a.ns]
    ELSE dgResults

\* the names of the issues of a kind of a namespace in the output, in order
RenderedNames(ns, kind) ==
    LET lines == SelectSeq(dgConsole,
                           LAMBDA l : l.kind = "item" /\ l.ns = ns /\ l.category = kind)
    IN [k \in 1..Len(lines) |-> lines[k].name]

\* the issues a fetch found are in the output: listed by name, or, for the
\* failed events of the cluster report, counted in the namespace's figures
FetchIsRendered(a) ==
    LET issues == StoredResults(a)[CategoryField[a.kind]] IN
    /\ Len(issues) = a.found
    /\ IF dgCmd = "reportCmd" /\ a.kind = "events"
       THEN a.found > 0 =>
               \E k \in 1..Len(dgConsole) :
                   /\ dgConsole[k].kind = "stats"
                   /\ dgConsole[k].ns = a.ns
                   /\ dgConsole[k].category = "events"
                   /\ dgConsole[k].n = a.found
       ELSE RenderedNames(a.ns, a.kind) = [k \in 1..Len(issues) |-> issues[k].Name]

\* a run under a deadline came to its end after the deadline passed
ExpiredRunDone == dgPc = "done" /\ HasDeadline(dgCmd) /\ dgExpired

C26_AtMostOnePreviousRetry ==
    logOp = "getPodLogs" =>
        /\ Len(logAttempts) \in {1, 2}
        /\ ~logAttempts[1].args.previous
        /\ Len(logAttempts) = 2 <=> ~logAttempts[1].ok
        /\ Len(logAttempts) = 2 =>
              /\ logAttempts[2].args.previous
              /\ logAttempts[2].args.tail = logAttempts[1].args.tail
        /\ logErr <=> ~logAttempts[Len(logAttempts)].ok
        /\ logErr => logReturned = <<>>

\* both calls failed: two calls were made and an error came back without text
C26_Witness ==
    /\ logOp = "getPodLogs"
    /\ Len(logAttempts) = 2
    /\ ~logAttempts[1].ok /\ ~logAttempts[2].ok
    /\ logAttempts[2].args.previous
    /\ logErr
    /\ logReturned = <<>>

\* ---- C27 ---------------------------------------------------------------
\* createSlackMessage built the payload of a diagnostic report
DiagnosticPayloadBuilt == WebhookRendered /\ renderOp = "diagnoseCmd"

\* the blocks that open the section of a category in the payload
CategoryBlocks(category) ==
    SelectSeq(rendered, LAMBDA l : l.kind = "section" /\ l.category = category)

\* the payload has the summary and, for each of the categories, one block if
\* the category has issues and none if it has not
BlocksFollowLists(categories) ==
    /\ \E k \in 1..Len(rendered) : rendered[k].kind = "summary"
    /\ \A category \in categories :
          Len(CategoryBlocks(category)) = (IF IssuesOf(1, category) # <<>> THEN 1 ELSE 0)

\* C27: the webhook payload of a diagnostic report holds a summary and, for
\* each of the categories pods, deployments and services, exactly one block
\* when the category's issue list is not empty and no block when it is empty.
C27_OneBlockPerCategory ==
    DiagnosticPayloadBuilt => BlocksFollowLists({"pods", "deployments", "services"})

\* C27, for the two categories createSlackMessage has a section for
C27_PodAndDeploymentBlocks ==
    DiagnosticPayloadBuilt => BlocksFollowLists({"pods", "deployments"})

\* a payload was built for a report with a service issue and has no block
\* for the services
C27_ServicesWithoutBlock ==
    /\ DiagnosticPayloadBuilt
    /\ IssuesOf(1, "services") # <<>>
    /\ CategoryBlocks("services") = <<>>
    /\ BlocksFollowLists({"pods", "deployments"})

\* ---- C28 ---------------------------------------------------------------
\* diagnoseCmd.Run came to its end through its analysis loops and its output
DiagnoseCmdRendered ==
    /\ dgCmd = "diagnoseCmd"
    /\ dgPc = "done"
    /\ dgNamespaces # <<>>
    /\ ~NamespaceHasNoIssues(dgResults)

\* the names of the issues of a kind the explanation service was asked to
\* analyse, in the order of the calls
AnalysedNames(kind) ==
    LET calls == SelectSeq(AnalysisCalls, LAMBDA c : c.category = kind)
    IN [k \in 1..Len(calls) |-> calls[k].name]

\* how many issues of a list of n are analysed under --max-items m
Capped(n, m) == IF m <= 0 THEN 0 ELSE IF n < m THEN n ELSE m

\* C28: with --max-items m the explanation service is asked for the first
\* min(n, m) issues of each kind's list, in list order, whatever the earlier
\* calls returned, and for none when m <= 0; the issues beyond the first m
\* have no Analysis and no Fix, and every issue is rendered.
C28_FirstMaxItemsAnalysed ==
    DiagnoseCmdRendered =>
        /\ \A kind \in Kinds :
              LET names == IssueNames(kind) IN
              /\ AnalysedNames(kind) =
                    (IF kind \in {"pods", "deployments"}
                     THEN SubSeq(names, 1, Capped(Len(names), dgMaxItems))
                     ELSE <<>>)
              /\ Len(AnalysedNames(kind)) <= Capped(Len(names), dgMaxItems)
              /\ \A i \in 1..Len(names) :
                    i > dgMaxItems =>
                        /\ Field(dgResults[CategoryField[kind]][i], "Analysis", "") = ""
                        /\ Field(dgResults[CategoryField[kind]][i], "Fix", "") = ""
              /\ ShownIssueNames(kind) = names
        /\ dgMaxItems <= 0 => dgCalls = <<>>

\* --max-items 1 with two unhealthy pods and a misconfigured deployment: the
\* call for the first pod failed, the second pod was not submitted and is
\* printed without analysis, and the deployment was still submitted
C28_Witness ==
    /\ DiagnoseCmdRendered
    /\ dgMaxItems = 1
    /\ Len(dgResults.UnhealthyPods) = 2
    /\ Len(dgResults.MisconfiguredDeployments) = 1
    /\ CallFailed("pods", dgResults.UnhealthyPods[1].Name, "analysis")
    /\ AnalysedNames("pods") = <<dgResults.UnhealthyPods[1].Name>>
    /\ CallOk("deployments", dgResults.MisconfiguredDeployments[1].Name, "analysis")
    /\ Field(dgResults.UnhealthyPods[2], "Analysis", "") = ""
    /\ ShownIssueNames("pods") = IssueNames("pods")

\* ---- C29 ---------------------------------------------------------------
\* a diagnose command printed its "No issues found" message for the
\* namespace it is in
SuccessShown ==
    /\ DiagnoseRuns
    /\ dgCmd \in {"runDiagnose", "diagnoseCmd"}
    /\ \E k \in 1..Len(dgConsole) :
          dgConsole[k].kind = "success" /\ dgConsole[k].ns = dgNamespaces[dgNs]

\* C29: the "No issues found" message of a diagnose command is printed for a
\* namespace only when at least one kind was to be checked and every checked
\* kind was fetched successfully and gave an empty issue list.
C29_SuccessOnlyWhenAllFetchedEmpty ==
    SuccessShown =>
        /\ dgKinds # <<>>
        /\ Len(CurrentAttempts) = Len(dgKinds)
        /\ \A k \in 1..Len(CurrentAttempts) :
              CurrentAttempts[k].ok /\ CurrentAttempts[k].found = 0

\* C29, the part on the lists: the message is printed only when no fetch of
\* the namespace gave an issue
C29_SuccessOnlyWhenListsEmpty ==
    SuccessShown =>
        \A k \in 1..Len(CurrentAttempts) : CurrentAttempts[k].found = 0

\* the message was printed although the fetch of a checked kind had failed
\* and its error is on the console
C29_SuccessAfterFailedFetch ==
    /\ SuccessShown
    /\ \E k \in 1..Len(CurrentAttempts) :
          /\ ~CurrentAttempts[k].ok
          /\ FetchErrorLine(CurrentAttempts[k]) \in ConsoleLines

\* the message was printed although the flags left no kind to check
C29_SuccessWithNothingChecked ==
    /\ SuccessShown
    /\ dgKinds = <<>>
    /\ CurrentAttempts = <<>>

\* ---- C30 ---------------------------------------------------------------
\* the questions whose answer has been evaluated
Evaluated == 1..Len(qzAnswers)

\* the answer evaluated for a question is the line the player typed for it
\* while its timer ran
TypedAnswerEvaluated(q) ==
    qzTyped[q] # <<>> =>
        /\ ~qzAnswers[q].timedOut
        /\ qzAnswers[q].answer = TrimSpace(qzTyped[q][1].chars)

\* the reader goroutine of a question holds no line typed at a later prompt
ReaderKeptToItsQuestion(q) ==
    qzReader[q].line # <<>> =>
        /\ qzReader[q].line[1].question = q
        /\ qzReader[q].line[1].prompt = "answer"

\* the reader goroutine of a question whose answer was evaluated is not in
\* a send nobody will receive, and when the loop is over it has returned
ReaderReturned(q) ==
    /\ qzReader[q].state # "sending"
    /\ qzPc = "done" => qzReader[q].state = "exited"

QuizAsSpecified ==
    /\ \A q \in Evaluated :
          TypedAnswerEvaluated(q) /\ ReaderReturned(q)
    /\ \A q \in Questions : ReaderKeptToItsQuestion(q)

\* C30: in the quiz loop, under every interleaving of the timer goroutines,
\* the reader goroutines and the main loop, a line typed before a question's
\* timeout is evaluated as the answer of that question, also after earlier
\* questions timed out, and no reader goroutine of an earlier question
\* reads the input of a later prompt or stays blocked.
C30_TypedAnswerReachesItsQuestion == QuizAsSpecified

\* no timer has fired so far
NoTimeoutYet == \A q \in Questions : qzTimer[q] # "fired"

\* C30, for the games in which no question timed out
C30_HoldsWithoutTimeout == NoTimeoutYet => QuizAsSpecified

\* the first question timed out with nothing typed; its reader goroutine
\* read the answer typed in time for the second question, which was then
\* evaluated as not answered, and the goroutine is still in its send
C30_LeakedReaderTakesNextAnswer ==
    /\ Len(qzAnswers) = 2
    /\ qzTyped[1] = <<>> /\ qzAnswers[1].timedOut
    /\ qzTyped[2] # <<>>
    /\ qzReader[1].state = "sending"
    /\ qzReader[1].line = qzTyped[2]
    /\ qzAnswers[2].timedOut
    /\ qzAnswers[2].answer = <<>>

\* a game without timeout: both answers were typed, evaluated as typed and
\* counted, and both reader goroutines returned
C30_GameWithoutTimeout ==
    /\ qzPc = "done"
    /\ NoTimeoutYet
    /\ qzScore = 2
    /\ QuizAsSpecified

====
